---------------------------- MODULE Spec2Model ----------------------------
(***************************************************************************)
(* Model of the gastown worker-lifecycle and data-plane control layer.     *)
(*                                                                         *)
(* Part 1 (specification Spec): the Dolt server supervisor of              *)
(* internal/doltserver/doltserver.go: Start, Stop and IsRunning called by  *)
(* several gt processes of one town, together with the operating system    *)
(* state they act on (process table, listening port, pid file, state file, *)
(* start lock).                                                            *)
(***************************************************************************)
EXTENDS Integers, Sequences, FiniteSets, TLC

(* ------------------------------ bounds -------------------------------- *)

\* the operating system hands out the process ids 1..MaxPid to the servers
\* started in one behaviour
MaxPid == 2

(* ------------------------------ domains ------------------------------- *)

\* gt processes calling into the supervisor for the same town
Procs == {"p1", "p2"}
NoProc == "none"

Pids == 1..MaxPid
NoPid == 0

\* rig (database) names are strings, written as sequences of characters
HQ == <<"h", "q">>

\* what a pid names in the process table:
\*   "dead"  no such process
\*   "child" a dolt sql-server spawned by Start (cmd.Start, doltserver.go:396)
\*   "ext"   a dolt sql-server started by something else
\*   "other" a live process that is not a dolt sql-server
Kinds == {"dead", "child", "ext", "other"}

VARIABLES
    kind,        \* process table: pid -> Kinds
    nextPid,     \* the pid the next started server gets (pids of servers are fresh)
    listener,    \* pid of the process listening on the configured port, or NoPid
    pidFile,     \* content of daemon/dolt.pid: a pid, or NoPid when the file is absent
    stateFile,   \* daemon/dolt-state.json as LoadState reads it: [running, pid]
    lockHolder,  \* process holding the flock on daemon/dolt.lock, or NoProc
    dataDbs,     \* names of the database directories under .dolt-data (ListDatabases)
    pc,          \* per process: position inside Start / Stop / IsRunning
    ret,         \* per process: who called IsRunning ("s_check","s_verify","stop","status")
    spawned,     \* per process: pid of the child spawned by the running Start, or NoPid
    target,      \* per process: pid the running Stop is signalling, or NoPid
    ev,          \* the call that returned in the last step, or NoEv
    startLog     \* the steps of the Start holding the lock, in the order taken

SrvVars == <<kind, nextPid, listener, pidFile, stateFile, lockHolder, dataDbs,
             pc, ret, spawned, target, ev, startLog>>

(* ------------------------- pure helper functions ---------------------- *)

\* process.Signal(syscall.Signal(0)) == nil
Alive(pid) == pid # NoPid /\ kind[pid] # "dead"

\* isDoltProcess: the command line contains "dolt" and "sql-server"
isDoltProcess(pid) == pid # NoPid /\ kind[pid] \in {"child", "ext"}

\* findDoltServerOnPort: pid of the dolt sql-server listening on the port, or 0
findDoltServerOnPort == IF isDoltProcess(listener) THEN listener ELSE NoPid

\* the pair (running, pid) that a whole IsRunning call returns in the current state
IsRunningNow ==
    IF pidFile # NoPid /\ Alive(pidFile) /\ isDoltProcess(pidFile)
    THEN <<TRUE, pidFile>>
    ELSE IF findDoltServerOnPort > 0 THEN <<TRUE, findDoltServerOnPort>>
         ELSE <<FALSE, NoPid>>

\* the state file after Start's SaveState / after Stop's SaveState
\* the pid file after a call of IsRunning: a pid file that names no live
\* dolt sql-server is removed (doltserver.go:196-198)
PidFileAfterIsRunning ==
    IF pidFile # NoPid /\ ~(Alive(pidFile) /\ isDoltProcess(pidFile))
    THEN NoPid ELSE pidFile

StartedState(pid) == [running |-> TRUE, pid |-> pid]
StoppedState == [running |-> FALSE, pid |-> NoPid]

\* no call returned in the last step
NoEv == [proc |-> NoProc, res |-> "none", pid |-> NoPid]

(* -------------------------------- Init -------------------------------- *)

\* no server, no pid file, no call in progress
SrvQuiet ==
    /\ kind = [i \in Pids |-> "dead"]
    /\ nextPid = 1
    /\ listener = NoPid
    /\ pidFile = NoPid
    /\ stateFile = StoppedState
    /\ lockHolder = NoProc
    /\ pc = [p \in Procs |-> "idle"]
    /\ ret = [p \in Procs |-> "status"]
    /\ spawned = [p \in Procs |-> NoPid]
    /\ target = [p \in Procs |-> NoPid]
    /\ ev = NoEv
    /\ startLog = <<>>

SrvInit == SrvQuiet /\ dataDbs \in {{}, {HQ}}

(* ------------------ what the caller of IsRunning does ----------------- *)

\* a step of Start and whether it succeeded
Event(e, ok) == [e |-> e, ok |-> ok]

\* the Start holding the lock took the steps evs
Logged(evs) == startLog' = startLog \o evs

\* a step outside the Start holding the lock: its steps stay as they are;
\* they are forgotten once that Start has returned
KeepLog == startLog' = IF lockHolder = NoProc THEN <<>> ELSE startLog

\* the call of p returns r; pid is the child it spawned (Start) or the
\* process it signalled (Stop). The locals of the call are gone.
Return(p, r, pid) ==
    /\ pc' = [pc EXCEPT ![p] = "idle"]
    /\ ret' = [ret EXCEPT ![p] = "status"]
    /\ spawned' = [spawned EXCEPT ![p] = NoPid]
    /\ target' = [target EXCEPT ![p] = NoPid]
    /\ ev' = [proc |-> p, res |-> r, pid |-> pid]

\* the call of p goes on at position l
Goto(p, l) ==
    /\ pc' = [pc EXCEPT ![p] = l]
    /\ ev' = NoEv

\* fileLock.Unlock (deferred in Start)
Unlock(p) == lockHolder' = IF lockHolder = p THEN NoProc ELSE lockHolder

\* Start after its first IsRunning: already-running check, ListDatabases,
\* cleanupStaleDoltLock, opening the log file
StartCheck(p, running) ==
    IF running
    THEN /\ Return(p, "err_running", NoPid) /\ Unlock(p)
         /\ Logged(<<Event("check", FALSE)>>)
    ELSE \E listOk, cleanOk, logOk \in BOOLEAN :
            IF ~listOk
            THEN \* ListDatabases returned an error
                 /\ Return(p, "err_list", NoPid) /\ Unlock(p)
                 /\ Logged(<<Event("check", TRUE), Event("list", FALSE)>>)
            ELSE IF dataDbs = {}
            THEN /\ Return(p, "err_nodb", NoPid) /\ Unlock(p)
                 /\ Logged(<<Event("check", TRUE), Event("list", FALSE)>>)
            ELSE \* cleanupStaleDoltLock per database: an error is only a
                 \* warning on stderr; then os.OpenFile of the log file
                 /\ Logged(<<Event("check", TRUE), Event("list", TRUE),
                             Event("cleanup", cleanOk), Event("log", logOk)>>)
                 /\ IF logOk
                    THEN /\ Goto(p, "s_spawn")
                         /\ UNCHANGED <<ret, spawned, target, lockHolder>>
                    ELSE Return(p, "err_log", NoPid) /\ Unlock(p)

\* Start after its second IsRunning (the liveness re-check): return
StartVerify(p, running) ==
    /\ Unlock(p)
    /\ Logged(<<Event("recheck", running)>>)
    /\ Return(p, IF running THEN "ok" ELSE "err_verify", spawned[p])

\* Stop after its IsRunning: not running is an error, else remember the pid
StopCheck(p, running, pid) ==
    /\ UNCHANGED lockHolder
    /\ KeepLog
    /\ IF ~running
       THEN Return(p, "err_notrunning", NoPid)
       ELSE /\ Goto(p, "st_term")
            /\ target' = [target EXCEPT ![p] = pid]
            /\ UNCHANGED <<ret, spawned>>

\* a bare IsRunning call (gt dolt status, InitRig, ...)
StatusDone(p, running, pid) ==
    /\ UNCHANGED lockHolder
    /\ KeepLog
    /\ Return(p, IF running THEN "running" ELSE "stopped", pid)

\* IsRunning returns (running, pid) to whoever called it
Finish(p, running, pid) ==
    CASE ret[p] = "s_check"  -> StartCheck(p, running)
      [] ret[p] = "s_verify" -> StartVerify(p, running)
      [] ret[p] = "stop"     -> StopCheck(p, running, pid)
      [] OTHER               -> StatusDone(p, running, pid)

(* ------------------------------ IsRunning ----------------------------- *)

\* an IsRunning that believes whatever pid the pid file holds
IRRead_TrustsPidFile(p) ==
    /\ pc[p] = "ir_read"
    /\ IF pidFile = NoPid
       THEN /\ Goto(p, "ir_scan")
            /\ KeepLog
            /\ UNCHANGED <<ret, spawned, target, lockHolder>>
       ELSE Finish(p, TRUE, pidFile)
    /\ UNCHANGED <<nextPid, kind, listener, pidFile, stateFile, dataDbs>>

\* os.ReadFile(PidFile), Atoi, Signal(0), isDoltProcess
IRRead(p) ==
    /\ pc[p] = "ir_read"
    /\ IF pidFile = NoPid
       THEN \* no pid file: go on to the port scan
            /\ Goto(p, "ir_scan")
            /\ KeepLog
            /\ UNCHANGED <<ret, spawned, target, lockHolder>>
       ELSE IF Alive(pidFile) /\ isDoltProcess(pidFile)
            THEN Finish(p, TRUE, pidFile)
            ELSE \* stale: the file will be removed
                 /\ Goto(p, "ir_remove")
                 /\ KeepLog
                 /\ UNCHANGED <<ret, spawned, target, lockHolder>>
    /\ UNCHANGED <<nextPid, kind, listener, pidFile, stateFile, dataDbs>>

\* _ = os.Remove(config.PidFile)
IRRemove(p) ==
    /\ pc[p] = "ir_remove"
    /\ pidFile' = NoPid
    /\ Goto(p, "ir_scan")
    /\ KeepLog
    /\ UNCHANGED <<nextPid, kind, listener, stateFile, lockHolder, dataDbs,
                   ret, spawned, target>>

\* pid := findDoltServerOnPort(config.Port) and the return
IRScan(p) ==
    /\ pc[p] = "ir_scan"
    /\ IF findDoltServerOnPort > 0
       THEN Finish(p, TRUE, findDoltServerOnPort)
       ELSE Finish(p, FALSE, NoPid)
    /\ UNCHANGED <<nextPid, kind, listener, pidFile, stateFile, dataDbs>>

\* a process calls IsRunning on its own
Status(p) ==
    /\ pc[p] = "idle"
    /\ Goto(p, "ir_read")
    /\ KeepLog
    /\ ret' = [ret EXCEPT ![p] = "status"]
    /\ UNCHANGED <<nextPid, kind, listener, pidFile, stateFile, lockHolder, dataDbs,
                   spawned, target>>

(* -------------------------------- Start ------------------------------- *)

\* a start lock that is taken without looking at who holds it
TryLock_NotExclusive(p) == TRUE

\* fileLock.TryLock(): TRUE when the lock was free and is now held by p
TryLock(p) == lockHolder = NoProc

\* Start up to the first IsRunning call: daemon directory, TryLock
StartLock(p) ==
    /\ pc[p] = "idle"
    /\ IF TryLock(p)
       THEN /\ lockHolder' = p
            /\ startLog' = <<Event("lock", TRUE)>>
            /\ Goto(p, "ir_read")
            /\ ret' = [ret EXCEPT ![p] = "s_check"]
            /\ UNCHANGED <<spawned, target>>
       ELSE /\ Return(p, "err_locked", NoPid)
            /\ UNCHANGED <<lockHolder, startLog>>
    /\ UNCHANGED <<nextPid, kind, listener, pidFile, stateFile, dataDbs>>

\* a Start that goes on to write the pid file although cmd.Start failed
StartSpawn_IgnoresFailure(p) ==
    /\ pc[p] = "s_spawn"
    /\ Goto(p, "s_pidfile")
    /\ Logged(<<Event("spawn", FALSE)>>)
    /\ UNCHANGED <<kind, nextPid, spawned, ret, target, lockHolder>>
    /\ UNCHANGED <<listener, pidFile, stateFile, dataDbs>>

\* cmd.Start(): the child exists from here on, or the spawn failed
StartSpawn(p) ==
    /\ pc[p] = "s_spawn"
    /\ \/ /\ nextPid \in Pids
          /\ kind' = [kind EXCEPT ![nextPid] = "child"]
          /\ nextPid' = nextPid + 1
          /\ spawned' = [spawned EXCEPT ![p] = nextPid]
          /\ Goto(p, "s_pidfile")
          /\ Logged(<<Event("spawn", TRUE)>>)
          /\ UNCHANGED <<ret, target, lockHolder>>
       \/ /\ Return(p, "err_spawn", NoPid)
          /\ Logged(<<Event("spawn", FALSE)>>)
          /\ Unlock(p)
          /\ UNCHANGED <<kind, nextPid>>
    /\ UNCHANGED <<listener, pidFile, stateFile, dataDbs>>

\* cmd.Process.Kill(): the child, if it still exists, is gone
KillChild(c) ==
    /\ kind' = [kind EXCEPT ![c] = IF kind[c] = "child" THEN "dead" ELSE @]
    /\ listener' = IF listener = c /\ kind[c] = "child" THEN NoPid ELSE listener

\* os.WriteFile(PidFile, pid); on failure kill the child and return the error
StartWritePid(p) ==
    /\ pc[p] = "s_pidfile"
    /\ \/ /\ pidFile' = spawned[p]
          /\ Logged(<<Event("pid", TRUE)>>)
          /\ Goto(p, "s_state")
          /\ UNCHANGED <<kind, listener, ret, spawned, target, lockHolder>>
       \/ /\ KillChild(spawned[p])
          /\ Return(p, "err_pidfile", spawned[p])
          /\ Logged(<<Event("pid", FALSE)>>)
          /\ Unlock(p)
          /\ UNCHANGED pidFile
    /\ UNCHANGED <<nextPid, stateFile, dataDbs>>

\* SaveState(running=true, pid=child); a failure is only a warning.
\* Then the 500 ms sleep and the call of IsRunning for the re-check.
StartSaveState(p) ==
    /\ pc[p] = "s_state"
    /\ \E saveOk \in BOOLEAN :
          /\ stateFile' = IF saveOk THEN StartedState(spawned[p]) ELSE stateFile
          /\ Logged(<<Event("state", saveOk)>>)
    /\ Goto(p, "ir_read")
    /\ ret' = [ret EXCEPT ![p] = "s_verify"]
    /\ UNCHANGED <<nextPid, kind, listener, pidFile, lockHolder, dataDbs, spawned, target>>

(* -------------------------------- Stop -------------------------------- *)

\* Stop up to its IsRunning call
StopBegin(p) ==
    /\ pc[p] = "idle"
    /\ Goto(p, "ir_read")
    /\ KeepLog
    /\ ret' = [ret EXCEPT ![p] = "stop"]
    /\ UNCHANGED <<nextPid, kind, listener, pidFile, stateFile, lockHolder, dataDbs,
                   spawned, target>>

\* process.Signal(SIGTERM): an error when the process is gone already.
\* The signalled server exits on its own (action Die) during the poll loop
\* that follows (10 rounds of 500 ms), or it does not.
StopTerm(p) ==
    /\ pc[p] = "st_term"
    /\ KeepLog
    /\ IF Alive(target[p])
       THEN Goto(p, "st_kill") /\ UNCHANGED <<ret, spawned, target>>
       ELSE Return(p, "err_signal", target[p])
    /\ UNCHANGED <<nextPid, kind, listener, pidFile, stateFile, lockHolder, dataDbs>>

\* after the poll loop: if Signal(0) still succeeds, SIGKILL and a 100 ms sleep
StopKill(p) ==
    /\ pc[p] = "st_kill"
    /\ KeepLog
    /\ IF Alive(target[p])
       THEN /\ kind' = [kind EXCEPT ![target[p]] = "dead"]
            /\ listener' = IF listener = target[p] THEN NoPid ELSE listener
       ELSE UNCHANGED <<kind, listener>>
    /\ Goto(p, "st_rmpid")
    /\ UNCHANGED <<nextPid, pidFile, stateFile, lockHolder, dataDbs, ret, spawned, target>>

\* _ = os.Remove(config.PidFile)
StopRemovePid(p) ==
    /\ pc[p] = "st_rmpid"
    /\ KeepLog
    /\ pidFile' = NoPid
    /\ Goto(p, "st_state")
    /\ UNCHANGED <<nextPid, kind, listener, stateFile, lockHolder, dataDbs,
                   ret, spawned, target>>

\* LoadState, Running=false, PID=0, _ = SaveState(...); return nil
StopSaveState(p) ==
    /\ pc[p] = "st_state"
    /\ KeepLog
    /\ \E saveOk \in BOOLEAN :
          stateFile' = IF saveOk THEN StoppedState ELSE stateFile
    /\ Return(p, "ok_stop", target[p])
    /\ UNCHANGED <<nextPid, kind, listener, pidFile, lockHolder, dataDbs>>

(* ----------------------- the operating system ------------------------- *)

\* a dolt sql-server is started by hand and binds the free port
ExtStart ==
    /\ nextPid \in Pids
    /\ KeepLog
    /\ listener = NoPid
    /\ kind' = [kind EXCEPT ![nextPid] = "ext"]
    /\ nextPid' = nextPid + 1
    /\ listener' = nextPid
    /\ ev' = NoEv
    /\ UNCHANGED <<pidFile, stateFile, lockHolder, dataDbs, pc, ret, spawned, target>>

\* an unrelated program runs under the pid a server had (pid reuse),
\* taking the port or not
OtherStart(c) ==
    /\ c < nextPid
    /\ KeepLog
    /\ kind[c] = "dead"
    /\ kind' = [kind EXCEPT ![c] = "other"]
    /\ \/ listener = NoPid /\ listener' = c
       \/ UNCHANGED listener
    /\ ev' = NoEv
    /\ UNCHANGED <<nextPid, pidFile, stateFile, lockHolder, dataDbs, pc, ret, spawned, target>>

\* a spawned server finishes starting up and listens on the port
ChildBind(c) ==
    /\ kind[c] = "child"
    /\ KeepLog
    /\ listener = NoPid
    /\ listener' = c
    /\ ev' = NoEv
    /\ UNCHANGED <<nextPid, kind, pidFile, stateFile, lockHolder, dataDbs, pc, ret, spawned, target>>

\* a process ends: crash, kill from outside, exit after SIGTERM, or a
\* server giving up because the port is taken
Die(c) ==
    /\ kind[c] # "dead"
    /\ KeepLog
    /\ kind' = [kind EXCEPT ![c] = "dead"]
    /\ listener' = IF listener = c THEN NoPid ELSE listener
    /\ ev' = NoEv
    /\ UNCHANGED <<nextPid, pidFile, stateFile, lockHolder, dataDbs, pc, ret, spawned, target>>

(* ====================================================================== *)
(*                    Claims about the server supervisor                  *)
(* ====================================================================== *)

\* p is inside Start, after its TryLock succeeded and before it returns
InStart(p) ==
    \/ pc[p] \in {"s_spawn", "s_pidfile", "s_state"}
    \/ pc[p] \in {"ir_read", "ir_remove", "ir_scan"} /\ ret[p] \in {"s_check", "s_verify"}

\* the results with which Start returns an error
StartErrors == {"err_locked", "err_running", "err_list", "err_nodb", "err_log",
                "err_spawn", "err_pidfile", "err_verify"}

\* no externally started dolt sql-server exists
NoExternalServer == \A c \in Pids : kind[c] # "ext"

\* C1: in the state in which Start returns success, a call of IsRunning
\* returns (true, pid) with pid the child spawned by this Start, and the pid
\* file holds that pid.
C1_StartThenIsRunning ==
    ev.res = "ok" => (IsRunningNow = <<TRUE, ev.pid>> /\ pidFile = ev.pid)

\* C2: in the state in which Stop returns success, the process it signalled
\* is not a live server, the pid file is absent, the state record says
\* running=false and pid=0, and a call of IsRunning returns (false, 0).
\* Stated for the returns at which no externally started server exists, so
\* that a server started by hand during the Stop is not held against it.
C2_StopThenNotRunning ==
    (ev.res = "ok_stop" /\ NoExternalServer) =>
        /\ ~isDoltProcess(ev.pid)
        /\ pidFile = NoPid
        /\ stateFile = StoppedState
        /\ IsRunningNow = <<FALSE, NoPid>>

C4_FailedStartLeavesStopped ==
    (ev.res \in StartErrors /\ ev.pid # NoPid) =>
        /\ kind[ev.pid] # "child"
        /\ pidFile # ev.pid
        /\ ~(stateFile.running /\ stateFile.pid = ev.pid)

\* the steps of Start in the order of its code (doltserver.go:319-441)
StartOrder == <<"lock", "check", "list", "cleanup", "log", "spawn", "pid",
                "state", "recheck">>

\* the steps whose failure Start only prints as a warning: the removal of a
\* stale LOCK file (lines 367-369) and SaveState (lines 425-427)
WarningOnly == {"cleanup", "state"}

\* the steps taken so far are the first steps of StartOrder
StartLogInOrder ==
    /\ Len(startLog) <= Len(StartOrder)
    /\ \A i \in 1..Len(startLog) : startLog[i].e = StartOrder[i]

\* the step e was taken and succeeded
Succeeded(e) == \E i \in 1..Len(startLog) : startLog[i] = Event(e, TRUE)

\* the Start of p is past TryLock: its child is named by the pid file only
\* after the spawn succeeded, by the state file only after the pid file was
\* written, and p holds the lock; the lock is given up only in the step in
\* which Start returns
StartFilesAndLock ==
    /\ \A p \in Procs : InStart(p) =>
          /\ lockHolder = p
          /\ (spawned[p] # NoPid /\ pidFile = spawned[p]) =>
                 (Succeeded("spawn") /\ Succeeded("pid"))
          /\ (spawned[p] # NoPid /\ stateFile = StartedState(spawned[p])) =>
                 (Succeeded("pid") /\ Succeeded("state"))
    /\ (startLog # <<>> /\ lockHolder = NoProc) =>
          (ev.proc \in Procs /\ ev.res \in StartErrors \cup {"ok"})

\* C26 as stated: within one Start the steps are taken in the order lock,
\* already-running check, database listing, stale-lock cleanup, log file,
\* spawn, pid file, state file, liveness re-check, each only after the
\* previous one succeeded; the pid file is written only after the spawn
\* succeeded, the state file only after the pid file, and the lock is held
\* until Start returns.
C26_EachAfterPreviousSucceeded ==
    /\ StartLogInOrder
    /\ \A i \in 1..(Len(startLog) - 1) : startLog[i].ok
    /\ StartFilesAndLock

\* C26, amended: the same order, each step only after the previous one
\* succeeded, except that the log file is opened also after a stale-lock
\* cleanup that failed and the liveness re-check is made also after a
\* state-file write that failed; the pid file is written only after the
\* spawn succeeded, the state file only after the pid file, and the lock is
\* held until Start returns.
C26_OrderExceptWarnings ==
    /\ StartLogInOrder
    /\ \A i \in 1..(Len(startLog) - 1) :
          startLog[i].ok \/ startLog[i].e \in WarningOnly
    /\ StartFilesAndLock

\* C26 witness: a Start returned success having taken all nine steps, with
\* the stale-lock cleanup and the state-file write failed
C26_Witness ==
    /\ ev.res = "ok"
    /\ Len(startLog) = Len(StartOrder)
    /\ ~Succeeded("cleanup")
    /\ ~Succeeded("state")
    /\ Succeeded("spawn") /\ Succeeded("pid") /\ Succeeded("recheck")

\* no call is in progress
Quiet == \A p \in Procs : pc[p] = "idle"

\* the states from which IsRunning is called: every pid is a server, spawned
\* by Start or started by hand (they die and their pids are reused as the
\* behaviour goes on), the pid file names any of them or is absent, a
\* server started by hand or none has the port, and the state file is as
\* an earlier Start or Stop left it
IsRunningInit ==
    /\ kind \in [Pids -> {"child", "ext"}]
    /\ nextPid = MaxPid + 1
    /\ listener \in {NoPid} \cup {c \in Pids : kind[c] = "ext"}
    /\ pidFile \in {NoPid} \cup Pids
    /\ stateFile \in {StoppedState} \cup {StartedState(c) : c \in Pids}
    /\ lockHolder = NoProc
    /\ pc = [p \in Procs |-> "idle"]
    /\ ret = [p \in Procs |-> "status"]
    /\ spawned = [p \in Procs |-> NoPid]
    /\ target = [p \in Procs |-> NoPid]
    /\ ev = NoEv
    /\ startLog = <<>>
    /\ dataDbs = {HQ}

\* what holds in the state in which a call of IsRunning returns
IsRunningReturn ==
    ev.res \in {"running", "stopped"} =>
        \* (true, pid): pid is alive and a dolt sql-server, named by the pid
        \* file or, with no pid file left, listening on the port
        /\ ev.res = "running" =>
              /\ Alive(ev.pid) /\ isDoltProcess(ev.pid)
              /\ \/ pidFile = ev.pid
                 \/ pidFile = NoPid /\ listener = ev.pid
        \* a pid file that is left names a live dolt sql-server and is
        \* what the call reported
        /\ pidFile # NoPid =>
              /\ Alive(pidFile) /\ isDoltProcess(pidFile)
              /\ ev.res = "running" /\ ev.pid = pidFile
        \* (false, 0): exactly when neither the pid file nor the port
        \* leads to a dolt sql-server
        /\ ev.res = "stopped" <=> (pidFile = NoPid /\ findDoltServerOnPort = NoPid)
        /\ ev.res = "stopped" => ev.pid = NoPid
        \* with every server dead: (false, 0) and no pid file
        /\ (\A c \in Pids : ~isDoltProcess(c)) =>
              (ev.res = "stopped" /\ ev.pid = NoPid /\ pidFile = NoPid)

\* a step of IsRunning of some process
IsRunningStep ==
    \E p \in Procs :
        /\ pc[p] \in {"ir_read", "ir_remove", "ir_scan"}
        /\ pc'[p] # pc[p]

C39_IsRunningKeepsLivePidFile ==
    [][\A p \in Procs :
          (pc[p] = "ir_remove" /\ pc'[p] = "ir_scan" /\ ret[p] # "stop") =>
              ~(pidFile # NoPid /\ Alive(pidFile) /\ isDoltProcess(pidFile))
      ]_SrvVars

(* ====================================================================== *)
(* Part 2 (specification SpecBranch): the polecat branch operations       *)
(* CreatePolecatBranch, MergePolecatBranch and DeletePolecatBranch, the   *)
(* SQL text they build by interpolation, and the rig database on the      *)
(* server that executes that text.                                        *)
(* ====================================================================== *)

\* the rig database holds at most MaxBranches polecat branches (existing or
\* already merged) in one behaviour
MaxBranches == 2

\* the character classes of validBranchNameRe: [a-zA-Z0-9._/-]
LowerCase == {"a","b","c","d","e","f","g","h","i","j","k","l","m",
              "n","o","p","q","r","s","t","u","v","w","x","y","z"}
UpperCase == {"A","B","C","D","E","F","G","H","I","J","K","L","M",
              "N","O","P","Q","R","S","T","U","V","W","X","Y","Z"}
Digits == {"0","1","2","3","4","5","6","7","8","9"}
BranchNameClass == LowerCase \cup UpperCase \cup Digits \cup {".", "_", "/", "-"}

\* the branch names callers pass, as sequences of characters: the empty
\* string, names made of characters of every class of the pattern, and
\* names holding a quote, a semicolon, a space or a line feed
Names == { <<>>,
           <<"p", "-", "1">>,
           <<"f", "/", "X", ".", "_">>,
           <<"9">>,
           <<"'">>,
           <<"p", "'">>,
           <<"p", ";">>,
           <<"p", " ">>,
           <<"p", "\n">>,
           <<"'", ")", ";", "-", "-">> }

\* the databases the server knows, and the rigDB arguments callers pass:
\* the database, a name the server does not know, and a name with a quote
ServerDbs == {<<"x">>}
RigDBs == {<<"x">>, <<"7">>, <<"x", "'">>}

VARIABLES
    repo,      \* the rig database: [branches, dirty, merged]
               \*   branches  names of the existing branches other than main
               \*   dirty     branches holding commits that are not on main
               \*   merged    branches whose commits are on main
    sqlLog,    \* the SQL texts the last branch operation handed to dolt sql
    brEv       \* the branch operation that returned in the last step

BrVars == <<repo, sqlLog, brEv>>

NoBrEv == [op |-> "none", db |-> <<>>, name |-> <<>>, err |-> FALSE,
           pre |-> [branches |-> {}, dirty |-> {}, merged |-> {}]]

BrInit ==
    /\ repo = [branches |-> {}, dirty |-> {}, merged |-> {}]
    /\ sqlLog = <<>>
    /\ brEv = NoBrEv

\* validBranchNameRe.MatchString: ^[a-zA-Z0-9._/-]+$ (Go's $ is end of text)
MatchString(s) == Len(s) >= 1 /\ \A i \in 1..Len(s) : s[i] \in BranchNameClass

\* validateBranchName(branchName) == nil
validateBranchName_AnyNonEmpty(branchName) == branchName # <<>>
validateBranchName(branchName) == branchName # <<>> /\ MatchString(branchName)

\* fmt.Sprintf of the statements: the fixed parts of the format are single
\* tokens, the interpolated name contributes its characters
CheckoutMainQuery == <<"CALL DOLT_CHECKOUT('main')">>
BranchQuery(branchName) == <<"CALL DOLT_BRANCH('">> \o branchName \o <<"')">>
MergeQuery(branchName) == <<"CALL DOLT_MERGE('">> \o branchName \o <<"')">>
ForceDeleteQuery(branchName) == <<"CALL DOLT_BRANCH('-D', '">> \o branchName \o <<"')">>
DeleteQuery(branchName) == <<"CALL DOLT_BRANCH('-d', '">> \o branchName \o <<"')">>

\* doltSQL's fullQuery: "USE <rigDB>; <query>"
FullQuery(rigDB, query) == <<"USE ">> \o rigDB \o <<"; ">> \o query

(* ---- the server's side of dolt sql -q: parsing and executing a text ---- *)

\* index of the first occurrence of tok in text, 0 when there is none
IndexOf(text, tok) ==
    IF \E i \in 1..Len(text) : text[i] = tok
    THEN CHOOSE i \in 1..Len(text) :
            text[i] = tok /\ \A j \in 1..(i - 1) : text[j] # tok
    ELSE 0

\* the database named by the USE prefix, and the statement after it
SqlDb(text) == SubSeq(text, 2, IndexOf(text, "; ") - 1)
SqlStmt(text) == SubSeq(text, IndexOf(text, "; ") + 1, Len(text))

\* a CALL statement with one interpolated string literal parses when the
\* literal is closed by the format's own quote: no quote inside it
StmtParses(stmt) ==
    \/ stmt = CheckoutMainQuery
    \/ /\ Len(stmt) >= 2
       /\ stmt[1] \in {"CALL DOLT_BRANCH('", "CALL DOLT_MERGE('",
                       "CALL DOLT_BRANCH('-D', '", "CALL DOLT_BRANCH('-d', '"}
       /\ stmt[Len(stmt)] = "')"
       /\ \A i \in 2..(Len(stmt) - 1) : stmt[i] # "'"

\* the string literal of a statement that parses
StmtArg(stmt) == SubSeq(stmt, 2, Len(stmt) - 1)

\* the database after the server executed text on database r, and whether
\* the server reported an error:
\*   DOLT_BRANCH(b)        creates b; an error when b exists or is empty
\*   DOLT_CHECKOUT('main') changes nothing that outlives the session
\*   DOLT_MERGE(b)         puts b's commits on main; an error when b is missing
\*   DOLT_BRANCH('-D', b)  deletes b; an error when b is missing
\*   DOLT_BRANCH('-d', b)  deletes b; an error when b is missing or holds
\*                         commits that are not on main
ExecSQL(r, text) ==
    LET stmt == SqlStmt(text)
        b == StmtArg(stmt)
        fail == [repo |-> r, err |-> TRUE]
    IN  IF SqlDb(text) \notin ServerDbs \/ ~StmtParses(stmt) THEN fail
        ELSE IF stmt = CheckoutMainQuery THEN [repo |-> r, err |-> FALSE]
        ELSE IF stmt[1] = "CALL DOLT_BRANCH('" THEN
            IF b = <<>> \/ b \in r.branches THEN fail
            ELSE [repo |-> [r EXCEPT !.branches = @ \cup {b}], err |-> FALSE]
        ELSE IF stmt[1] = "CALL DOLT_MERGE('" THEN
            IF b \notin r.branches THEN fail
            ELSE [repo |-> [r EXCEPT !.dirty = @ \ {b},
                                     !.merged = IF b \in r.dirty THEN @ \cup {b} ELSE @],
                  err |-> FALSE]
        ELSE IF stmt[1] = "CALL DOLT_BRANCH('-D', '" THEN
            IF b \notin r.branches THEN fail
            ELSE [repo |-> [r EXCEPT !.branches = @ \ {b}, !.dirty = @ \ {b}],
                  err |-> FALSE]
        ELSE \* "CALL DOLT_BRANCH('-d', '"
            IF b \notin r.branches \/ b \in r.dirty THEN fail
            ELSE [repo |-> [r EXCEPT !.branches = @ \ {b}], err |-> FALSE]

\* doltSQL(townRoot, rigDB, query): runs dolt sql -q on the full query; up
\* says whether the command reached the server within its 15 s timeout
doltSQL_ErrorDropped(r, rigDB, query, up) ==
    [repo |-> IF up THEN ExecSQL(r, FullQuery(rigDB, query)).repo ELSE r,
     err |-> FALSE]
doltSQL(r, rigDB, query, up) ==
    IF up THEN ExecSQL(r, FullQuery(rigDB, query))
    ELSE [repo |-> r, err |-> TRUE]

\* the branch operations return: record the call and its result
BrReturn(op, rigDB, branchName, err) ==
    brEv' = [op |-> op, db |-> rigDB, name |-> branchName, err |-> err, pre |-> repo]

\* the database stays within the bound on the number of branches
WithinBranchBound(r) == Cardinality(r.branches \cup r.merged) <= MaxBranches

CreatePolecatBranch(rigDB, branchName) ==
    IF ~validateBranchName(branchName)
    THEN /\ BrReturn("create", rigDB, branchName, TRUE)
         /\ sqlLog' = <<>>
         /\ UNCHANGED repo
    ELSE \E up \in BOOLEAN :
            LET query == BranchQuery(branchName)
                res == doltSQL(repo, rigDB, query, up)
            IN  /\ WithinBranchBound(res.repo)
                /\ repo' = res.repo
                /\ sqlLog' = <<FullQuery(rigDB, query)>>
                /\ BrReturn("create", rigDB, branchName, res.err)

MergePolecatBranch(rigDB, branchName) ==
    IF ~validateBranchName(branchName)
    THEN /\ BrReturn("merge", rigDB, branchName, TRUE)
         /\ sqlLog' = <<>>
         /\ UNCHANGED repo
    ELSE \E up1, up2, up3 \in BOOLEAN :
            LET q1 == CheckoutMainQuery
                q2 == MergeQuery(branchName)
                q3 == ForceDeleteQuery(branchName)
                r1 == doltSQL(repo, rigDB, q1, up1)
                r2 == doltSQL(r1.repo, rigDB, q2, up2)
                r3 == doltSQL(r2.repo, rigDB, q3, up3)
            IN  IF r1.err
                THEN /\ repo' = r1.repo
                     /\ sqlLog' = <<FullQuery(rigDB, q1)>>
                     /\ BrReturn("merge", rigDB, branchName, TRUE)
                ELSE IF r2.err
                THEN /\ repo' = r2.repo
                     /\ sqlLog' = <<FullQuery(rigDB, q1), FullQuery(rigDB, q2)>>
                     /\ BrReturn("merge", rigDB, branchName, TRUE)
                ELSE /\ repo' = r3.repo
                     /\ sqlLog' = <<FullQuery(rigDB, q1), FullQuery(rigDB, q2),
                                    FullQuery(rigDB, q3)>>
                     /\ BrReturn("merge", rigDB, branchName, FALSE)

\* DeletePolecatBranch has no result: err records that it only warned
DeletePolecatBranch(rigDB, branchName) ==
    IF ~validateBranchName(branchName)
    THEN /\ BrReturn("delete", rigDB, branchName, TRUE)
         /\ sqlLog' = <<>>
         /\ UNCHANGED repo
    ELSE \E up \in BOOLEAN :
            LET query == DeleteQuery(branchName)
                res == doltSQL(repo, rigDB, query, up)
            IN  /\ repo' = res.repo
                /\ sqlLog' = <<FullQuery(rigDB, query)>>
                /\ brEv' = [op |-> "delete", db |-> rigDB, name |-> branchName,
                            err |-> res.err, pre |-> repo, reached |-> up]

\* a polecat commits bead changes on its branch
PolecatWrite(branchName) ==
    /\ branchName \in repo.branches
    /\ repo' = [repo EXCEPT !.dirty = @ \cup {branchName}]
    /\ sqlLog' = <<>>
    /\ brEv' = NoBrEv

(* ------------------- claims about the branch operations --------------- *)

\* the pattern the contract gives for branch names: non-empty, every
\* character a letter, a digit, or one of . _ / -
SafeBranchName(s) ==
    /\ s # <<>>
    /\ \A i \in 1..Len(s) :
          s[i] \in LowerCase \cup UpperCase \cup Digits \cup {".", "_", "/", "-"}

\* C5: when CreatePolecatBranch, MergePolecatBranch or DeletePolecatBranch
\* returns from a call whose branch name is empty or has a character outside
\* [A-Za-z0-9._/-], the call issued no SQL text, the database is what it was
\* before the call, and create and merge returned an error.
C5_InvalidNameNoSQL ==
    (brEv.op \in {"create", "merge", "delete"} /\ ~SafeBranchName(brEv.name)) =>
        /\ sqlLog = <<>>
        /\ repo = brEv.pre
        /\ brEv.op \in {"create", "merge"} => brEv.err

\* C5 witness: a merge called with a name holding a quote returned, while
\* the database holds a branch with unmerged commits
C5_Witness ==
    /\ brEv.op = "merge"
    /\ \E i \in 1..Len(brEv.name) : brEv.name[i] = "'"
    /\ brEv.err
    /\ repo.dirty # {}

\* C17: in the state in which MergePolecatBranch(rigDB, B) returns, the
\* statements it issued are the checkout of main, then the merge of B, then
\* the deletion of B, up to the first that failed; it returns an error
\* exactly when the checkout or the merge was not issued or failed, and then
\* B, if it existed, still exists with its commits; B has been deleted only
\* after its merge succeeded, its commits being on main; and when it returns
\* success B's commits are on main whether or not the deletion succeeded.
C17_MergeBeforeDelete ==
    brEv.op = "merge" =>
        LET B == brEv.name
            pre == brEv.pre
            q1 == FullQuery(brEv.db, <<"CALL DOLT_CHECKOUT('main')">>)
            q2 == FullQuery(brEv.db, <<"CALL DOLT_MERGE('">> \o B \o <<"')">>)
            q3 == FullQuery(brEv.db, <<"CALL DOLT_BRANCH('-D', '">> \o B \o <<"')">>)
        IN  /\ sqlLog \in {<<>>, <<q1>>, <<q1, q2>>, <<q1, q2, q3>>}
            /\ brEv.err <=> Len(sqlLog) < 3
            /\ brEv.err =>
                  /\ B \in pre.branches => B \in repo.branches
                  /\ B \in pre.dirty => B \in repo.dirty
            /\ (B \in pre.branches /\ B \notin repo.branches) =>
                  /\ Len(sqlLog) = 3
                  /\ B \in pre.dirty => B \in repo.merged
            /\ ~brEv.err =>
                  /\ B \in pre.branches
                  /\ B \in pre.dirty => B \in repo.merged

\* C17 witness: a branch with commits was merged, the deletion failed, and
\* MergePolecatBranch returned success with the commits on main
C17_Witness ==
    /\ brEv.op = "merge"
    /\ ~brEv.err
    /\ brEv.name \in brEv.pre.dirty
    /\ brEv.name \in repo.branches
    /\ brEv.name \in repo.merged

\* C31: in the state in which DeletePolecatBranch returns from a call with
\* a valid branch name whose statement reached the server of the rig's
\* database, the branch does not exist, whether or not its commits were on
\* main before the call, and main holds the commits it held before.
C31_NukeForceDeletes ==
    (/\ brEv.op = "delete"
     /\ SafeBranchName(brEv.name)
     /\ brEv.db \in ServerDbs
     /\ brEv.reached) =>
        /\ brEv.name \notin repo.branches
        /\ repo.merged = brEv.pre.merged

(* ====================================================================== *)
(* Part 3 (specification SpecRig): the rig data plane of                  *)
(* internal/doltserver/doltserver.go called by one process at a time:     *)
(* InitRig, FindMigratableDatabases, MigrateRigFromBeads, EnsureMetadata  *)
(* and EnsureAllMetadata, and the files they read and write: the database *)
(* directories under .dolt-data, the legacy databases in the rigs' store  *)
(* directories, and each store's metadata.json.                           *)
(* ====================================================================== *)

R1 == <<"r", "1">>

\* the rigs that have a place in the town
Rigs == {HQ, R1}

\* the rigName arguments callers pass
RigArgs == {<<>>, HQ, R1, <<"r", ";">>}

\* the store (.beads) directories: the town's, and a rig's two places
\*   town   <townRoot>/.beads
\*   mayor  <townRoot>/<rig>/mayor/rig/.beads
\*   root   <townRoot>/<rig>/.beads
Stores == {<<HQ, "town">>, <<R1, "mayor">>, <<R1, "root">>}

(* ------------------------- JSON values and files ---------------------- *)

\* a JSON value as written in a file:
\*   str  a string, s its text (a sequence of tokens)
\*   int  an integer below 2^53, n its value
\*   big  the integer 2^53 + n
JStr(s) == [t |-> "str", s |-> s, n |-> 0]
JInt(n) == [t |-> "int", s |-> <<>>, n |-> n]
JBig(n) == [t |-> "big", s |-> <<>>, n |-> n]

\* a store directory's metadata.json:
\*   nodir    the store directory does not exist
\*   absent   the directory exists, the file does not
\*   empty    the file has no bytes (a file being rewritten in place)
\*   garbage  the bytes are not JSON
\*   null     the JSON literal null
\*   object   a JSON object, obj its members
NoObj == <<>>
File(t) == [t |-> t, obj |-> NoObj]
Object(obj) == [t |-> "object", obj |-> obj]

\* the keys EnsureMetadata sets
ServerKeys == {"database", "backend", "dolt_mode", "dolt_database"}

\* the metadata files a store starts with
EmptyDoc == Object(<<>>)
TestDoc == Object([database |-> JStr(<<"beads.db">>),
                   custom_field |-> JStr(<<"preserved">>)])
SqliteDoc == Object([backend |-> JStr(<<"sqlite">>),
                     jsonl_export |-> JStr(<<"custom.jsonl">>),
                     schema_version |-> JInt(7)])
BigDoc == Object([last_sync_ns |-> JBig(1)])
Docs == {File("nodir"), File("absent"), File("garbage"), File("null"),
         EmptyDoc, TestDoc, SqliteDoc, BigDoc}

\* the files the rig's two stores start with
MayorDocs == {File("nodir"), File("absent"), SqliteDoc, BigDoc}
RootDocs == {File("nodir"), File("absent"), TestDoc}

\* the files of the layouts migration starts from (TestDoc in the town's
\* store only)
LayoutDocs == {File("nodir"), File("absent"), TestDoc}

\* json.Unmarshal into interface{}: a string stays a string, every number
\* becomes the nearest float64. Integers below 2^53 are exact; from 2^53 to
\* 2^54 the float64 values are the even integers, and a tie goes to the one
\* whose mantissa is even (a multiple of 4 above 2^53).
NearestEven(n) ==
    IF n % 2 = 0 THEN n
    ELSE IF (n \div 2) % 2 = 0 THEN n - 1 ELSE n + 1
UnmarshalValue(v) ==
    IF v.t = "big" THEN [g |-> "float64", s |-> <<>>, base |-> 1, n |-> NearestEven(v.n)]
    ELSE IF v.t = "int" THEN [g |-> "float64", s |-> <<>>, base |-> 0, n |-> v.n]
    ELSE [g |-> "string", s |-> v.s, base |-> 0, n |-> 0]

\* json.Marshal of a Go value: a float64 is written with the shortest
\* digits that read back as the same float64
MarshalValue(x) ==
    IF x.g = "string" THEN JStr(x.s)
    ELSE IF x.base = 1 THEN JBig(x.n) ELSE JInt(x.n)

GoString(s) == [g |-> "string", s |-> s, base |-> 0, n |-> 0]

\* the map after "existing := make(map...); json.Unmarshal(data, &existing)"
\* for a file that could be read: the members of an object, nothing for
\* bytes that are not JSON (the error is dropped). null sets the map to nil.
UnmarshalMap(f) ==
    IF f.t = "object"
    THEN [k \in DOMAIN f.obj |-> UnmarshalValue(f.obj[k])]
    ELSE <<>>
IsNilMap(f) == f.t = "null"

\* json.MarshalIndent of the map
MarshalMap(m) == Object([k \in DOMAIN m |-> MarshalValue(m[k])])

(* ------------------------------ the state ----------------------------- *)

VARIABLES
    meta,       \* store -> its metadata.json
    legacy,     \* the stores that hold a legacy database: <store>/dolt/beads/.dolt
    redirects,  \* the rigs whose <rig>/.beads/redirect names mayor/rig/.beads
    rigEv       \* the data-plane call that returned in the last step

RigVars == <<meta, legacy, redirects, rigEv>>

NoRigEv == [op |-> "none", rig |-> <<>>, res |-> "none", store |-> <<>>,
            pre |-> [st \in Stores |-> File("nodir")],
            found |-> {}, updated |-> {}, again |-> FALSE]

\* os.Stat(<store>) == nil
DirExists(m, store) == m[store].t # "nodir"

\* towns without legacy databases, with every kind of metadata file
MetaInit ==
    /\ meta \in {m \in [Stores -> Docs] :
                    /\ m[<<R1, "mayor">>] \in MayorDocs
                    /\ m[<<R1, "root">>] \in RootDocs}
    /\ legacy = {}
    /\ redirects = {}
    /\ rigEv = NoRigEv

\* towns with legacy databases: a legacy database lies inside its store
\* directory, and the redirect file inside the rig's own .beads
RigInit ==
    /\ meta \in {m \in [Stores -> LayoutDocs] :
                    \A st \in Stores \ {<<HQ, "town">>} : m[st] # TestDoc}
    /\ legacy \in SUBSET {st \in Stores : DirExists(meta, st)}
    /\ redirects \in SUBSET {r \in {R1} : DirExists(meta, <<r, "root">>)}
    /\ rigEv = NoRigEv

\* one fixed layout, for the specifications about other parts
RigIdle ==
    /\ meta = [st \in Stores |-> File("nodir")]
    /\ legacy = {}
    /\ redirects = {}
    /\ rigEv = NoRigEv

(* ------------------------------ path lookup --------------------------- *)

\* beads.ResolveBeadsDir(dir): dir/.beads, or the place its redirect file
\* names (one hop)
ResolveBeadsDir(rig) ==
    IF rig = HQ THEN <<HQ, "town">>
    ELSE IF rig \in redirects THEN <<rig, "mayor">> ELSE <<rig, "root">>

FindRigBeadsDir(m, rigName) ==
    IF rigName = HQ THEN <<HQ, "town">>
    ELSE IF DirExists(m, <<rigName, "mayor">>) THEN <<rigName, "mayor">>
    ELSE IF DirExists(m, <<rigName, "root">>) THEN <<rigName, "root">>
    ELSE <<rigName, "mayor">>

(* ----------------------------- EnsureMetadata ------------------------- *)

\* lines 759-767: set the server fields, default jsonl_export
SetServerFields_FromOldDatabase(existing, rigName) ==
    [k \in DOMAIN existing \cup ServerKeys \cup {"jsonl_export"} |->
        IF k \in {"database", "backend"} THEN GoString(<<"dolt">>)
        ELSE IF k = "dolt_mode" THEN GoString(<<"server">>)
        ELSE IF k = "dolt_database"
             THEN IF "database" \in DOMAIN existing THEN existing["database"]
                  ELSE GoString(rigName)
        ELSE IF k \in DOMAIN existing THEN existing[k]
        ELSE GoString(<<"issues.jsonl">>)]
SetServerFields(existing, rigName) ==
    [k \in DOMAIN existing \cup ServerKeys \cup {"jsonl_export"} |->
        IF k \in {"database", "backend"} THEN GoString(<<"dolt">>)
        ELSE IF k = "dolt_mode" THEN GoString(<<"server">>)
        ELSE IF k = "dolt_database" THEN GoString(rigName)
        ELSE IF k \in DOMAIN existing THEN existing[k]
        ELSE GoString(<<"issues.jsonl">>)]

\* os.MkdirAll(<store>)
MkdirAll(m, store) ==
    IF DirExists(m, store) THEN m ELSE [m EXCEPT ![store] = File("absent")]

\* os.ReadFile(<store>/metadata.json) returned data
Readable(f) == f.t \notin {"nodir", "absent"}

\* util.AtomicWriteFile: the file holds data, or on failure what it held
AtomicWriteFile(m, store, data, writeOk) ==
    IF writeOk THEN [m EXCEPT ![store] = data] ELSE m

\* EnsureMetadata(townRoot, rigName) on the files m: the files after it, its
\* result and the store it chose. mkdirOk: MkdirAll succeeds when it has to
\* create the directory; writeOk: the write succeeds.
\*   "ok", "err_mkdir", "err_write", or "panic" (assignment to the nil map
\*   that json.Unmarshal leaves for the document null)
EnsureMetadataOn(m, rigName, mkdirOk, writeOk) ==
    LET store == FindRigBeadsDir(m, rigName)
        m1 == MkdirAll(m, store)
        f == m1[store]
        existing == IF Readable(f) THEN UnmarshalMap(f) ELSE <<>>
        data == MarshalMap(SetServerFields(existing, rigName))
    IN  IF ~DirExists(m, store) /\ ~mkdirOk
        THEN [meta |-> m, res |-> "err_mkdir", store |-> store]
        ELSE IF Readable(f) /\ IsNilMap(f)
        THEN [meta |-> m1, res |-> "panic", store |-> store]
        ELSE IF ~writeOk
        THEN [meta |-> AtomicWriteFile(m1, store, data, FALSE),
              res |-> "err_write", store |-> store]
        ELSE [meta |-> AtomicWriteFile(m1, store, data, TRUE),
              res |-> "ok", store |-> store]

\* a data-plane call returns
RigReturn(op, rigName, res, store, found, updated) ==
    rigEv' = [op |-> op, rig |-> rigName, res |-> res, store |-> store,
              pre |-> meta, found |-> found, updated |-> updated,
              again |-> /\ op = "EnsureMetadata"
                        /\ rigEv.op = "EnsureMetadata"
                        /\ rigEv.rig = rigName
                        /\ rigEv.res = "ok"]

EnsureMetadata(rigName) ==
    \E mkdirOk, writeOk \in BOOLEAN :
        LET r == EnsureMetadataOn(meta, rigName, mkdirOk, writeOk)
        IN  /\ meta' = r.meta
            /\ RigReturn("EnsureMetadata", rigName, r.res, r.store, {}, {})
            /\ UNCHANGED <<legacy, redirects, dataDbs, pidFile>>

(* ---------------------------- EnsureAllMetadata ----------------------- *)

\* os.ReadDir returns the entries sorted by name
DbOrder == <<HQ, R1>>

\* ListDatabases: the directories of .dolt-data that contain .dolt
ListDatabases == SelectSeq(DbOrder, LAMBDA d : d \in dataDbs)

\* the loop of EnsureAllMetadata over dbs, from the files m; flags gives
\* each call's mkdirOk and writeOk. A panic ends the loop (and the process).
RECURSIVE EnsureEach(_, _, _, _)
EnsureEach(m, dbs, flags, updated) ==
    IF dbs = <<>> THEN [meta |-> m, updated |-> updated, res |-> "done"]
    ELSE LET r == EnsureMetadataOn(m, Head(dbs), flags[Head(dbs)][1], flags[Head(dbs)][2])
         IN  IF r.res = "panic"
             THEN [meta |-> r.meta, updated |-> updated, res |-> "panic"]
             ELSE EnsureEach(r.meta, Tail(dbs), flags,
                             IF r.res = "ok" THEN updated \cup {Head(dbs)} ELSE updated)

EnsureAllMetadata ==
    \/ \* os.ReadDir(config.DataDir) failed
       /\ RigReturn("EnsureAllMetadata", <<>>, "err_list", <<>>, {}, {})
       /\ UNCHANGED <<meta, legacy, redirects, dataDbs, pidFile>>
    \/ \E flags \in [dataDbs -> BOOLEAN \X BOOLEAN] :
          LET r == EnsureEach(meta, ListDatabases, flags, {})
          IN  /\ meta' = r.meta
              /\ RigReturn("EnsureAllMetadata", <<>>, r.res, <<>>, {}, r.updated)
              /\ UNCHANGED <<legacy, redirects, dataDbs, pidFile>>

(* --------------------------------- InitRig ---------------------------- *)

\* the characters InitRig accepts in a rig name (lines 582-586)
RigNameClass == LowerCase \cup UpperCase \cup Digits \cup {"_", "-"}

ValidRigName(rigName) == \A i \in 1..Len(rigName) : rigName[i] \in RigNameClass

\* InitRig(townRoot, rigName)
InitRig(rigName) ==
    IF rigName = <<>> \/ ~ValidRigName(rigName)
    THEN /\ RigReturn("InitRig", rigName, "err_name", <<>>, {}, {})
         /\ UNCHANGED <<meta, legacy, redirects, dataDbs, pidFile>>
    ELSE IF rigName \in dataDbs
    THEN /\ RigReturn("InitRig", rigName, "err_exists", <<>>, {}, {})
         /\ UNCHANGED <<meta, legacy, redirects, dataDbs, pidFile>>
    ELSE /\ pidFile' = PidFileAfterIsRunning
         /\ UNCHANGED <<legacy, redirects>>
         /\ \/ \* CREATE DATABASE, or MkdirAll or dolt init, failed
               /\ RigReturn("InitRig", rigName, "err_create", <<>>, {}, {})
               /\ UNCHANGED <<meta, dataDbs>>
            \/ \E mkdirOk, writeOk \in BOOLEAN :
                  LET r == EnsureMetadataOn(meta, rigName, mkdirOk, writeOk)
                  IN  /\ dataDbs' = dataDbs \cup {rigName}
                      /\ meta' = r.meta
                      /\ RigReturn("InitRig", rigName,
                                   IF r.res = "panic" THEN "panic" ELSE "ok",
                                   r.store, {}, {})

(* ------------------------ FindMigratableDatabases --------------------- *)

\* os.Stat(<source>/.dolt) == nil for the legacy database of a store
SourceHasDolt(store) == store \in legacy

\* os.IsNotExist of os.Stat(<data dir>/<rig>/.dolt)
TargetIsFree_Unchecked(rigName) == TRUE
TargetIsFree(rigName) == rigName \notin dataDbs

\* the rig directories os.ReadDir(townRoot) lists: the directories whose
\* name does not start with a dot
RigDirs == {r \in Rigs \ {HQ} :
               DirExists(meta, <<r, "root">>) \/ DirExists(meta, <<r, "mayor">>)}

Migration(rigName, source) ==
    [RigName |-> rigName, SourcePath |-> source, TargetPath |-> rigName]

\* lines 641-653: the town-level database
TownMigrations ==
    LET townSource == ResolveBeadsDir(HQ)
    IN  IF SourceHasDolt(townSource) /\ TargetIsFree(HQ)
        THEN {Migration(HQ, townSource)} ELSE {}

\* lines 662-682: the rig-level databases
RigMigrations ==
    {Migration(r, ResolveBeadsDir(r)) :
        r \in {rr \in RigDirs : SourceHasDolt(ResolveBeadsDir(rr)) /\ TargetIsFree(rr)}}

\* FindMigratableDatabases(townRoot); readOk: os.ReadDir(townRoot) succeeds
FindMigratableDatabases ==
    \E readOk \in BOOLEAN :
        /\ RigReturn("FindMigratableDatabases", <<>>, "ok", <<>>,
                     IF readOk THEN TownMigrations \cup RigMigrations
                     ELSE TownMigrations, {})
        /\ UNCHANGED <<meta, legacy, redirects, dataDbs, pidFile>>

(* -------------------------- MigrateRigFromBeads ----------------------- *)

\* what moveDir(src, dest) can do:
\*   "moved"      os.Rename succeeded (dest absent or an empty directory),
\*                or, with dest absent, cp -a and RemoveAll did
\*   "err_rename" os.Rename failed with an error other than EXDEV (dest a
\*                directory that is not empty, ...): nothing changed
\*   "err_copy"   cp -a failed: the source is whole, the target holds what
\*                was copied so far (with or without its .dolt)
\*   "err_remove" the copy is whole, os.RemoveAll(src) failed: the source
\*                holds what was not removed (with or without its .dolt)
\*   "nested"     os.Rename failed with EXDEV and dest is a directory that
\*                holds no .dolt, as a dolt init that failed (InitRig, lines
\*                607-616) or a cp -a that was cut short leaves it: cp -a
\*                src dest copied the source to dest/<base of src> and
\*                RemoveAll removed the source
MoveOutcomes == {"moved", "err_rename", "err_copy", "err_remove", "nested"}

\* MigrateRigFromBeads(townRoot, rigName, sourcePath), sourcePath the legacy
\* database of the store source.
\* part: the directory a failed moveDir left half done contains .dolt.
MigrateRigFromBeads(rigName, source) ==
    LET Returns(res, store) ==
            RigReturn("MigrateRigFromBeads", rigName, res, store,
                      {Migration(rigName, source)}, {})
    IN
    IF rigName \in dataDbs
    THEN /\ Returns("err_exists", <<>>)
         /\ UNCHANGED <<meta, legacy, redirects, dataDbs, pidFile>>
    ELSE IF ~SourceHasDolt(source)
    THEN /\ Returns("err_source", <<>>)
         /\ UNCHANGED <<meta, legacy, redirects, dataDbs, pidFile>>
    ELSE /\ UNCHANGED <<redirects, pidFile>>
         /\ \/ \* os.MkdirAll(config.DataDir) failed
               /\ Returns("err_datadir", <<>>)
               /\ UNCHANGED <<meta, legacy, dataDbs>>
            \/ \E move \in MoveOutcomes :
                  /\ IF move = "err_rename"
                     THEN /\ Returns("err_move", <<>>)
                          /\ UNCHANGED <<meta, legacy, dataDbs>>
                     ELSE IF move = "err_copy"
                     THEN \E part \in BOOLEAN :
                          /\ Returns("err_move", <<>>)
                          /\ dataDbs' = IF part THEN dataDbs \cup {rigName} ELSE dataDbs
                          /\ UNCHANGED <<meta, legacy>>
                     ELSE IF move = "err_remove"
                     THEN \E part \in BOOLEAN :
                          /\ Returns("err_move", <<>>)
                          /\ dataDbs' = dataDbs \cup {rigName}
                          /\ legacy' = IF part THEN legacy ELSE legacy \ {source}
                          /\ UNCHANGED meta
                     ELSE \E mkdirOk, writeOk \in BOOLEAN :
                          LET r == EnsureMetadataOn(meta, rigName, mkdirOk, writeOk)
                          IN  /\ dataDbs' = IF move = "nested" THEN dataDbs
                                            ELSE dataDbs \cup {rigName}
                              /\ legacy' = legacy \ {source}
                              /\ meta' = r.meta
                              /\ Returns(IF r.res = "panic" THEN "panic" ELSE "ok",
                                         r.store)

(* --------------------- claims about the rig data plane ---------------- *)

\* the members of a metadata file read as a record: none when the file
\* does not hold a JSON object
RecordOf(f) == IF f.t = "object" THEN f.obj ELSE <<>>

\* the record rec has the member k with value v
HasValue(rec, k, v) == k \in DOMAIN rec /\ rec[k] = v

\* the record points at the server database of rig R
PointsAtServer(rec, R) ==
    /\ HasValue(rec, "backend", JStr(<<"dolt">>))
    /\ HasValue(rec, "dolt_mode", JStr(<<"server">>))
    /\ HasValue(rec, "dolt_database", JStr(R))

\* every member of old other than the server fields and jsonl_export is a
\* member of new with the same value
UnrelatedKeysKept(old, new) ==
    \A k \in DOMAIN old \ (ServerKeys \cup {"jsonl_export"}) : HasValue(new, k, old[k])

\* C6: in the state in which EnsureMetadata(townRoot, R) returns success, the
\* rig's metadata file holds a record with backend=dolt, dolt_mode=server,
\* database=dolt and dolt_database=R; its jsonl_export is the value the
\* record had before the call, or issues.jsonl when it had none; and every
\* other member the record had before the call is there with the same value.
C6_EnsureMetadataContract ==
    (rigEv.op = "EnsureMetadata" /\ rigEv.res = "ok") =>
        LET old == RecordOf(rigEv.pre[rigEv.store])
            new == RecordOf(meta[rigEv.store])
        IN  /\ meta[rigEv.store].t = "object"
            /\ PointsAtServer(new, rigEv.rig)
            /\ HasValue(new, "database", JStr(<<"dolt">>))
            /\ HasValue(new, "jsonl_export",
                        IF "jsonl_export" \in DOMAIN old THEN old["jsonl_export"]
                        ELSE JStr(<<"issues.jsonl">>))
            /\ UnrelatedKeysKept(old, new)

\* rig R's metadata record points at the server, and holds the unrelated
\* members it held before the last call
Reconciled(R) ==
    LET store == FindRigBeadsDir(meta, R)
    IN  /\ PointsAtServer(RecordOf(meta[store]), R)
        /\ UnrelatedKeysKept(RecordOf(rigEv.pre[store]), RecordOf(meta[store]))

\* C7: in the state in which InitRig(R) or MigrateRigFromBeads(R) returns
\* success, rig R's metadata record has backend=dolt, dolt_mode=server and
\* dolt_database=R and its unrelated members are unchanged; and in the state
\* in which EnsureAllMetadata returns without an error, the same holds of
\* every database R of the data directory.
C7_RigsPointAtServer ==
    /\ (rigEv.op \in {"InitRig", "MigrateRigFromBeads"} /\ rigEv.res = "ok")
          => Reconciled(rigEv.rig)
    /\ (rigEv.op = "EnsureAllMetadata" /\ rigEv.res = "done" /\ rigEv.updated = dataDbs)
          => \A R \in dataDbs : Reconciled(R)

\* C8: when EnsureMetadata(townRoot, R) returns and the call that returned
\* before it was a successful EnsureMetadata(townRoot, R) too, the second
\* call left every metadata file as the first call had left it.
C8_EnsureMetadataIdempotent ==
    (rigEv.op = "EnsureMetadata" /\ rigEv.again) => meta = rigEv.pre

\* C8 witness: the second of two successful calls in a row returned, on a
\* record that holds members other than the ones EnsureMetadata sets
C8_Witness ==
    /\ rigEv.op = "EnsureMetadata"
    /\ rigEv.again
    /\ rigEv.res = "ok"
    /\ DOMAIN RecordOf(meta[rigEv.store]) \ (ServerKeys \cup {"jsonl_export"}) # {}

\* C10: in the state in which FindMigratableDatabases returns, no migration
\* it returned has a target <data dir>/<rig> that contains .dolt, for hq and
\* for every rig directory.
C10_NoMigrationOntoExisting ==
    rigEv.op = "FindMigratableDatabases" =>
        \A m \in rigEv.found : m.TargetPath \notin dataDbs

\* C10 witness: FindMigratableDatabases returned a migration and left out a
\* rig that has a legacy database and a target that contains .dolt
C10_Witness ==
    /\ rigEv.op = "FindMigratableDatabases"
    /\ rigEv.found # {}
    /\ \E r \in dataDbs :
          /\ SourceHasDolt(ResolveBeadsDir(r))
          /\ \A m \in rigEv.found : m.RigName # r

\* C11: in the state in which FindMigratableDatabases returns, its result
\* holds a migration for rig R exactly when R is a non-hidden directory of
\* the town whose store directory, resolved through its redirect file if it
\* has one, contains dolt/beads/.dolt and whose target <data dir>/R does not
\* contain .dolt; and that migration has RigName=R, the legacy database of
\* the resolved store as SourcePath and <data dir>/R as TargetPath.
C11_MigrationsExactlyLegacyRigs ==
    rigEv.op = "FindMigratableDatabases" =>
        \A R \in Rigs \ {HQ} :
            /\ (\E mg \in rigEv.found : mg.RigName = R)
                  <=> /\ DirExists(meta, <<R, "root">>) \/ DirExists(meta, <<R, "mayor">>)
                      /\ IF R \in redirects THEN <<R, "mayor">> \in legacy
                                            ELSE <<R, "root">> \in legacy
                      /\ R \notin dataDbs
            /\ \A mg \in rigEv.found :
                  mg.RigName = R =>
                      /\ mg.SourcePath = (IF R \in redirects THEN <<R, "mayor">>
                                                              ELSE <<R, "root">>)
                      /\ mg.TargetPath = R

\* C28: a call of MigrateRigFromBeads returns an error and changes neither
\* the data directory nor the legacy databases when the target
\* <data dir>/<rig> contains .dolt or the source has no .dolt; and when it
\* returns success the target contains .dolt and the source does not any
\* more, whether the move was a rename or a copy followed by a delete.
C28_MigrateMovesOrFails ==
    [][rigEv'.op = "MigrateRigFromBeads" =>
          LET rig == rigEv'.rig
              src == (CHOOSE m \in rigEv'.found : TRUE).SourcePath
          IN  /\ (rig \in dataDbs \/ src \notin legacy) =>
                    /\ rigEv'.res \in {"err_exists", "err_source"}
                    /\ UNCHANGED <<dataDbs, legacy>>
              /\ rigEv'.res = "ok" => (rig \in dataDbs' /\ src \notin legacy')
      ]_<<RigVars, dataDbs>>

\* C32: in the state in which CreatePolecatBranch, MergePolecatBranch or
\* DeletePolecatBranch returns from a call whose branch name is outside
\* [A-Za-z0-9._/-]+ or whose database name is empty or has a character
\* outside the rig names' [A-Za-z0-9_-], the call handed no SQL text to the
\* server and the database is what it was before the call.
C32_NamesValidatedBeforeSQL ==
    (/\ brEv.op \in {"create", "merge", "delete"}
     /\ \/ ~SafeBranchName(brEv.name)
        \/ brEv.db = <<>>
        \/ ~ValidRigName(brEv.db)) =>
        /\ sqlLog = <<>>
        /\ repo = brEv.pre

(* ====================================================================== *)
(* Part 4 (specification SpecRace): concurrent writers of one metadata    *)
(* file, the town's: EnsureMetadata(townRoot, "hq") called by goroutines  *)
(* of gt processes (init, migration, the update-all sweep), and the       *)
(* doctor's dolt-metadata check with its fix, writeDoltMetadata, of       *)
(* internal/doctor/migration_check.go.                                    *)
(* ====================================================================== *)

\* the goroutines that call EnsureMetadata, the doctor runs, and the
\* operating-system process each belongs to
Reconcilers == {"a1", "a2", "b1"}
Doctors == {"d1"}
Writers == Reconcilers \cup Doctors
ProcOf(w) == IF w \in {"a1", "a2"} THEN "A" ELSE IF w = "b1" THEN "B" ELSE "D"
GtProcs == {"A", "B"}
NoWriter == "none"

\* the metadata file all of them work on
RaceStore == <<HQ, "town">>

VARIABLES
    wpc,       \* writer -> its position
               \*   EnsureMetadata:    "idle" "em_read" "em_write"
               \*   doctor:            "idle" "d_fix" "d_open" "d_write"
    wbuf,      \* writer -> the map it decoded from the file (existing)
    mu,        \* gt process -> the goroutine holding its metadataMu entry for
               \* the file, or NoWriter
    orphan,    \* the doctors whose open file is no longer the one at the path
    orig,      \* the file before any of the writers ran
    anyOk,     \* some writer returned success
    anyErr     \* some writer returned an error or panicked

RaceVars == <<wpc, wbuf, mu, orphan, orig, anyOk, anyErr>>

NoBuf == <<>>

RaceIdle ==
    /\ wpc = [w \in Writers |-> "idle"]
    /\ wbuf = [w \in Writers |-> NoBuf]
    /\ mu = [p \in GtProcs |-> NoWriter]
    /\ orphan = {}
    /\ orig = meta[RaceStore]
    /\ anyOk = FALSE
    /\ anyErr = FALSE

\* the town's store holds any of the files; the other stores do not exist
RaceInit ==
    /\ meta \in {m \in [Stores -> Docs] :
                    \A st \in Stores \ {RaceStore} : m[st] = File("nodir")}
    /\ legacy = {}
    /\ redirects = {}
    /\ rigEv = NoRigEv
    /\ RaceIdle

\* the writer returns: ok says whether with success
WReturn(w, ok) ==
    /\ wpc' = [wpc EXCEPT ![w] = "idle"]
    /\ wbuf' = [wbuf EXCEPT ![w] = NoBuf]
    /\ anyOk' = (anyOk \/ ok)
    /\ anyErr' = (anyErr \/ ~ok)

(* ---- EnsureMetadata(townRoot, "hq"), step by step (lines 731-779) ---- *)

\* lines 742-743: mu.Lock() on the process's mutex for the path
EMLock(w) ==
    /\ wpc[w] = "idle"
    /\ mu[ProcOf(w)] = NoWriter
    /\ mu' = [mu EXCEPT ![ProcOf(w)] = w]
    /\ wpc' = [wpc EXCEPT ![w] = "em_read"]
    /\ UNCHANGED <<meta, wbuf, orphan, orig, anyOk, anyErr>>

\* lines 748-756: MkdirAll, ReadFile, Unmarshal
EMRead(w) ==
    /\ wpc[w] = "em_read"
    /\ UNCHANGED <<orphan, orig>>
    /\ \/ \* MkdirAll failed
          /\ ~DirExists(meta, RaceStore)
          /\ WReturn(w, FALSE)
          /\ mu' = [mu EXCEPT ![ProcOf(w)] = NoWriter]
          /\ UNCHANGED meta
       \/ LET m1 == MkdirAll(meta, RaceStore)
              f == m1[RaceStore]
          IN  /\ meta' = m1
              /\ IF Readable(f) /\ IsNilMap(f)
                 THEN \* panic on the nil map: the deferred Unlock runs
                      /\ WReturn(w, FALSE)
                      /\ mu' = [mu EXCEPT ![ProcOf(w)] = NoWriter]
                 ELSE /\ wbuf' = [wbuf EXCEPT ![w] =
                                     IF Readable(f) THEN UnmarshalMap(f) ELSE NoBuf]
                      /\ wpc' = [wpc EXCEPT ![w] = "em_write"]
                      /\ UNCHANGED <<mu, anyOk, anyErr>>

\* lines 759-778: set the fields, marshal, AtomicWriteFile (temp file and
\* rename: a doctor that has the old file open keeps writing to the old one)
EMWrite(w) ==
    /\ wpc[w] = "em_write"
    /\ \E writeOk \in BOOLEAN :
          LET data == MarshalMap(SetServerFields(wbuf[w], HQ))
          IN  /\ meta' = AtomicWriteFile(meta, RaceStore, data, writeOk)
              /\ orphan' = IF writeOk
                           THEN orphan \cup {d \in Doctors : wpc[d] = "d_write"}
                           ELSE orphan
              /\ WReturn(w, writeOk)
    /\ mu' = [mu EXCEPT ![ProcOf(w)] = NoWriter]
    /\ UNCHANGED orig

(* ---- the doctor's dolt-metadata check and fix (migration_check.go) --- *)

\* hasDoltMetadata(beadsDir, expectedDB)
hasDoltMetadata(f, expectedDB) ==
    /\ f.t = "object"
    /\ \A k \in {"backend", "dolt_mode", "dolt_database"} \cap DOMAIN f.obj :
          f.obj[k].t = "str"
    /\ "backend" \in DOMAIN f.obj /\ f.obj["backend"].s = <<"dolt">>
    /\ "dolt_mode" \in DOMAIN f.obj /\ f.obj["dolt_mode"].s = <<"server">>
    /\ "dolt_database" \in DOMAIN f.obj /\ f.obj["dolt_database"].s = expectedDB

\* Run (lines 381-407): hq is checked when .dolt-data/hq exists, and is put
\* on the list Fix works through when its metadata lacks the server config
DocRun(w) ==
    /\ wpc[w] = "idle"
    /\ HQ \in dataDbs
    /\ ~hasDoltMetadata(meta[RaceStore], HQ)
    /\ wpc' = [wpc EXCEPT ![w] = "d_fix"]
    /\ UNCHANGED <<meta, wbuf, mu, orphan, orig, anyOk, anyErr>>

\* writeDoltMetadata lines 498-524: ReadFile, Unmarshal, set the fields
DocRead(w) ==
    /\ wpc[w] = "d_fix"
    /\ LET f == meta[RaceStore]
       IN  IF Readable(f) /\ IsNilMap(f)
           THEN WReturn(w, FALSE)
           ELSE /\ wbuf' = [wbuf EXCEPT ![w] =
                               IF Readable(f) THEN UnmarshalMap(f) ELSE NoBuf]
                /\ wpc' = [wpc EXCEPT ![w] = "d_open"]
                /\ UNCHANGED <<anyOk, anyErr>>
    /\ UNCHANGED <<meta, mu, orphan, orig>>

\* lines 526-530: MkdirAll, and os.WriteFile opening the file with O_TRUNC
DocOpen(w) ==
    /\ wpc[w] = "d_open"
    /\ UNCHANGED <<mu, orig>>
    /\ \/ \* MkdirAll or the open failed
          /\ WReturn(w, FALSE)
          /\ UNCHANGED <<meta, orphan>>
       \/ /\ meta' = [meta EXCEPT ![RaceStore] = File("empty")]
          /\ orphan' = orphan \ {w}
          /\ wpc' = [wpc EXCEPT ![w] = "d_write"]
          /\ UNCHANGED <<wbuf, anyOk, anyErr>>

\* line 530: os.WriteFile writing the bytes into the file it opened
DocWrite(w) ==
    /\ wpc[w] = "d_write"
    /\ \E writeOk \in BOOLEAN :
          LET data == MarshalMap(SetServerFields(wbuf[w], HQ))
          IN  /\ meta' = IF writeOk /\ w \notin orphan
                         THEN [meta EXCEPT ![RaceStore] = data]
                         ELSE meta
              /\ WReturn(w, writeOk)
    /\ orphan' = orphan \ {w}
    /\ UNCHANGED <<mu, orig>>

(* ------------------ claims about the concurrent writers --------------- *)

\* w has read the metadata file and has not yet finished writing it
InReadModifyWrite(w) == wpc[w] \in {"em_write", "d_open", "d_write"}

\* what one writer, and so any number of them one after the other, makes of
\* the file f
SerialResult(f) ==
    EnsureMetadataOn([st \in Stores |-> f], HQ, TRUE, TRUE).meta[RaceStore]

\* C9: the read-modify-write sequences of the writers of one metadata file
\* (goroutines of one process or separate processes, reconciler calls and
\* the doctor fix) do not overlap; and when all writers have returned, all
\* with success, the file is what the writers leave when they run one after
\* the other, with every member the file had before them.
C9_WritersSerialized ==
    /\ Cardinality({w \in Writers : InReadModifyWrite(w)}) <= 1
    /\ ((\A w \in Writers : wpc[w] = "idle") /\ anyOk /\ ~anyErr) =>
          /\ meta[RaceStore] = SerialResult(orig)
          /\ DOMAIN RecordOf(orig) \subseteq DOMAIN RecordOf(meta[RaceStore])

(* ====================================================================== *)
(* Part 5 (specifications SpecHealth and SpecSpawn): the polecat health   *)
(* supervisor. Each daemon heartbeat runs checkPolecatHealth(rig, name)   *)
(* for a polecat: it reads the polecat's agent issue, applies the         *)
(* spawning guard, probes the multiplexer session and, for a crashed      *)
(* polecat, logs CRASH DETECTED and restarts it. gt sling spawns the      *)
(* polecat: agent issue, then session, then agent_state=working.          *)
(* ====================================================================== *)

\* the clock, in minutes, runs up to MaxNow
MaxNow == 6

\* the spawning guard holds for 5 minutes after updated_at
SpawningGrace == 5

\* one more process than a spawn and one restart launch
MaxLaunched == 2

\* the polecat of the tests, rig "myr" and name "mycat", abbreviated
PolecatRig == <<"m">>
PolecatName == <<"c">>

\* the prefix of all session names
Prefix == <<"g", "t", "-">>

CrewSessionName(rig, name) == Prefix \o rig \o <<"-", "c", "r", "e", "w", "-">> \o name

PolecatSessionName_Crew(rig, name) == CrewSessionName(rig, name)
PolecatSessionName(rig, name) == Prefix \o rig \o <<"-">> \o name

\* the values of the agent_state column
AgentStates == {"spawning", "working", "idle", "done", "crashed"}

\* the agent issue bd show --json prints: the agent_state column, the
\* agent_state line of the description, updated_at, hook_bead
AgentBead(descState, dbState, hookBead, updatedAt) ==
    [agent_state |-> dbState, description |-> descState,
     updated_at |-> updatedAt, hook_bead |-> hookBead]

NoBead == AgentBead("none", "none", <<>>, 0)

HookBead == <<"x">>

VARIABLES
    bead,       \* the polecat's agent issue in the issue store
    sessions,   \* the names of the multiplexer's sessions
    now,        \* the clock
    hb,         \* the heartbeat's check in progress
    hev,        \* the check that returned last
    launched,   \* the processes launched for the polecat so far
    sling       \* the spawn in progress

HealthVars == <<bead, sessions, now, hb, hev, launched, sling>>

HbIdle == [pc |-> "idle", bead |-> NoBead, at |-> 0, log |-> {}]

NoHev == [op |-> "none", bead |-> NoBead, at |-> 0, log |-> {},
          probed |-> FALSE, sessions |-> {}, restart |-> FALSE]

NoSling == [pc |-> "none", late |-> FALSE]

\* nothing known about any polecat
HealthIdle ==
    /\ bead = NoBead
    /\ sessions = {}
    /\ now = 0
    /\ hb = HbIdle
    /\ hev = NoHev
    /\ launched = 0
    /\ sling = NoSling

\* a polecat in any state of its life: what the tests' fake bd prints; the
\* description says spawning or working
HealthInit ==
    /\ bead \in {AgentBead(d, s, HookBead, 0) :
                    d \in {"spawning", "working"}, s \in AgentStates}
    /\ sessions \in SUBSET {PolecatSessionName(PolecatRig, PolecatName),
                            CrewSessionName(PolecatRig, PolecatName)}
    /\ now = 0
    /\ hb = HbIdle
    /\ hev = NoHev
    /\ launched = 0
    /\ sling = NoSling

(* --------------------------- checkPolecatHealth ----------------------- *)

\* step 2: the state the check decides on is the agent_state column
HealthState_FromDescription(b) == b.description
HealthState(b) == b.agent_state

\* step 3: the polecat is spawning and was updated at most 5 minutes ago
SpawningGuard_NoGuard(b, t) == FALSE
SpawningGuard(b, t) ==
    HealthState(b) = "spawning" /\ t - b.updated_at <= SpawningGrace

\* step 4: the states for which the session is probed
ProbesSession(b) == HealthState(b) \in {"spawning", "working"}

\* tmux has-session -t <name>
HasSession(name) == name \in sessions

\* the check returns: the agent issue it read and when, what it logged,
\* the sessions there were when it probed, whether it restarted the polecat
HealthReturn(b, t, log, probed, restart) ==
    /\ hev' = [op |-> "checkPolecatHealth", bead |-> b, at |-> t, log |-> log,
               probed |-> probed, sessions |-> IF probed THEN sessions ELSE {},
               restart |-> restart]
    /\ hb' = HbIdle

\* steps 1-3 and 5 of the check: read the agent issue, decide on its state
HBRead ==
    /\ hb.pc = "idle"
    /\ bead # NoBead
    /\ IF SpawningGuard(bead, now)
       THEN HealthReturn(bead, now, {"spawning"}, FALSE, FALSE)
       ELSE IF ProbesSession(bead)
       THEN /\ hb' = [pc |-> "probe", bead |-> bead, at |-> now,
                      log |-> IF HealthState(bead) = "spawning"
                              THEN {"Spawning guard expired"} ELSE {}]
            /\ UNCHANGED hev
       ELSE HealthReturn(bead, now, {}, FALSE, FALSE)
    /\ UNCHANGED <<bead, sessions, now, launched, sling>>

\* step 4 of the check: probe the session; a missing session is a crash,
\* and the polecat is restarted when capacity and quiesce rules allow it
HBProbe(rig, name) ==
    /\ hb.pc = "probe"
    /\ IF HasSession(PolecatSessionName(rig, name))
       THEN /\ HealthReturn(hb.bead, hb.at, hb.log, TRUE, FALSE)
            /\ UNCHANGED <<sessions, launched>>
       ELSE \E allowed \in BOOLEAN :
            /\ HealthReturn(hb.bead, hb.at, hb.log \cup {"CRASH DETECTED"}, TRUE,
                            allowed /\ launched < MaxLaunched)
            /\ IF allowed /\ launched < MaxLaunched
               THEN /\ sessions' = sessions \cup {PolecatSessionName(rig, name)}
                    /\ launched' = launched + 1
               ELSE UNCHANGED <<sessions, launched>>
    /\ UNCHANGED <<bead, now, sling>>

(* ------------------------- the polecat's surroundings ----------------- *)

\* a minute passes
Tick ==
    /\ now < MaxNow
    /\ now' = now + 1
    /\ UNCHANGED <<bead, sessions, hb, hev, launched, sling>>

\* the transitions of a polecat's agent_state
Lifecycle == {<<"spawning", "working">>, <<"working", "done">>,
              <<"working", "idle">>, <<"idle", "working">>}

\* UpdateAgentState: writes the column and updated_at, not the description
UpdateAgentState(state) ==
    /\ bead # NoBead
    /\ <<bead.agent_state, state>> \in Lifecycle
    /\ bead' = [bead EXCEPT !.agent_state = state, !.updated_at = now]
    /\ UNCHANGED <<sessions, now, hb, hev, launched, sling>>

\* a session ends: the agent crashed or finished
SessionEnd(name) ==
    /\ name \in sessions
    /\ sessions' = sessions \ {name}
    /\ UNCHANGED <<bead, now, hb, hev, launched, sling>>

(* --------------------------------- gt sling --------------------------- *)

\* the state gt sling gives the agent issue it creates
SlingState_Working == "working"
SlingState == "spawning"

\* the agent issue is created, agent_state=spawning, with the hook set
SlingCreateBead ==
    /\ sling.pc = "none"
    /\ bead = NoBead
    /\ bead' = AgentBead(SlingState, SlingState, HookBead, now)
    /\ sling' = [sling EXCEPT !.pc = "bead"]
    /\ UNCHANGED <<sessions, now, hb, hev, launched>>

\* the session is started; late: after the grace window of the agent issue
SlingStartSession(rig, name) ==
    /\ sling.pc = "bead"
    /\ launched < MaxLaunched
    /\ sessions' = sessions \cup {PolecatSessionName(rig, name)}
    /\ launched' = launched + 1
    /\ sling' = [pc |-> "session", late |-> now - bead.updated_at > SpawningGrace]
    /\ UNCHANGED <<bead, now, hb, hev>>

\* the agent reports for work: agent_state=working
SlingSetWorking ==
    /\ sling.pc = "session"
    /\ bead' = [bead EXCEPT !.agent_state = "working", !.updated_at = now]
    /\ sling' = [sling EXCEPT !.pc = "done"]
    /\ UNCHANGED <<sessions, now, hb, hev, launched>>

(* ====================================================================== *)
(* Part 6 (specification SpecDrift): the step-drift detector of           *)
(* internal/cmd/patrol_step_drift.go. A polecat closes the steps of its   *)
(* molecule on its own database branch while its session ages;            *)
(* checkStepDrift reads the polecat's branch, molecule, step statuses and *)
(* session age through dolt, bd and tmux, each of which can fail.         *)
(* ====================================================================== *)

\* session ages, in minutes, run up to MaxAge
MaxAge == 6

\* the default of the --threshold flag
DefaultThreshold == 5

\* the values of --threshold
Thresholds == {DefaultThreshold, DefaultThreshold + 1}

\* the canonical molecule step names in execution order
stepsOrder == <<
    <<"L", "o", "a", "d", " ", "c", "o", "n", "t", "e", "x", "t">>,
    <<"S", "e", "t", " ", "u", "p", " ", "w", "o", "r", "k", "i", "n", "g", " ", "b", "r", "a", "n", "c", "h">>,
    <<"V", "e", "r", "i", "f", "y", " ", "t", "e", "s", "t", "s", " ", "p", "a", "s", "s">>,
    <<"I", "m", "p", "l", "e", "m", "e", "n", "t">>,
    <<"S", "e", "l", "f", "-", "r", "e", "v", "i", "e", "w">>,
    <<"R", "u", "n", " ", "t", "e", "s", "t", "s">>,
    <<"C", "l", "e", "a", "n", " ", "u", "p">>,
    <<"P", "r", "e", "p", "a", "r", "e", " ", "w", "o", "r", "k">>,
    <<"S", "u", "b", "m", "i", "t", " ", "w", "o", "r", "k">> >>

\* the titles of the nine steps of the polecat's molecule, as bd show
\* prints them
WispTitles == <<
    <<"L", "O", "A", "D", " ", "C", "O", "N", "T", "E", "X", "T">>,
    <<"S", "e", "t", " ", "u", "p", " ", "w", "o", "r", "k", "i", "n", "g", " ", "b", "r", "a", "n", "c", "h">>,
    <<"V", "e", "r", "i", "f", "y", " ", "t", "e", "s", "t", "s", " ", "p", "a", "s", "s", " ", "o", "n", " ", "b", "a", "s", "e">>,
    <<"I", "m", "p", "l", "e", "m", "e", "n", "t">>,
    <<"S", "e", "l", "f", "-", "r", "e", "v", "i", "e", "w">>,
    <<"R", "u", "n", " ", "t", "e", "s", "t", "s">>,
    <<"C", "l", "e", "a", "n", " ", "u", "p", " ", "w", "o", "r", "k", "s", "p", "a", "c", "e">>,
    <<"P", "r", "e", "p", "a", "r", "e", " ", "w", "o", "r", "k">>,
    <<"S", "u", "b", "m", "i", "t", " ", "w", "o", "r", "k">> >>

DriftRig == <<"m">>
DriftRigFlags == {<<>>, DriftRig, <<"o">>}

VARIABLES
    pole,       \* the polecat: the age of its session, the steps it has
                \* closed on its branch, whether work is on its hook
    driftEv     \* the step-drift check that returned in the last step

DriftVars == <<pole, driftEv>>

NoDriftEv == [op |-> "none", threshold |-> 0, results |-> <<>>]

DriftIdle ==
    /\ pole = [age |-> 0, closed |-> {}, hooked |-> FALSE]
    /\ driftEv = NoDriftEv

\* a polecat whose session has just started, with or without work
DriftInit ==
    /\ pole \in [age : {0}, closed : {{}}, hooked : BOOLEAN]
    /\ driftEv = NoDriftEv

(* ---------------------------- reading the steps ----------------------- *)

\* the lower-case letter of each upper-case letter
LowerOf ==
    LET upper == <<"A","B","C","D","E","F","G","H","I","J","K","L","M",
                   "N","O","P","Q","R","S","T","U","V","W","X","Y","Z">>
        lower == <<"a","b","c","d","e","f","g","h","i","j","k","l","m",
                   "n","o","p","q","r","s","t","u","v","w","x","y","z">>
    IN  [c \in UpperCase |-> lower[CHOOSE i \in 1..26 : upper[i] = c]]

\* strings.ToLower
ToLower(str) ==
    [i \in 1..Len(str) |-> IF str[i] \in UpperCase THEN LowerOf[str[i]] ELSE str[i]]

\* strings.Contains
Contains(str, substr) ==
    \E i \in 1..(Len(str) - Len(substr) + 1) :
        SubSeq(str, i, i + Len(substr) - 1) = substr

\* the statuses bd show <wisp> gives: on the polecat's branch the steps it
\* closed are closed, on main none is
StepsOn(onBranch) ==
    [i \in 1..Len(WispTitles) |-> onBranch /\ i \in pole.closed]

\* readStepStatus(wispID, doltBranch): title -> closed, nil without a wisp
\* or when bd show fails; without a branch it reads main
readStepStatus(wispID, doltBranch, showOk) ==
    IF wispID = <<>> \/ ~showOk THEN <<>>
    ELSE LET steps == StepsOn(doltBranch # <<>>)
         IN  [key \in {WispTitles[i] : i \in 1..Len(WispTitles)} |->
                 steps[CHOOSE i \in 1..Len(WispTitles) : WispTitles[i] = key]]

\* matchStep(stepName, statuses): the status of a key that contains the
\* step name, whichever the iteration over the map meets first
matchStep(stepName, statuses) ==
    LET keys == {key \in DOMAIN statuses :
                    Contains(ToLower(key), ToLower(stepName))}
    IN  IF keys = {} THEN {FALSE} ELSE {statuses[key] : key \in keys}

\* countClosedSteps(statuses): the counts it can return, over the first n
\* canonical steps
RECURSIVE ClosedCounts(_, _)
ClosedCounts(n, statuses) ==
    IF n = 0 THEN {0}
    ELSE {c + (IF b THEN 1 ELSE 0) :
             c \in ClosedCounts(n - 1, statuses),
             b \in matchStep(stepsOrder[n], statuses)}

countClosedSteps(statuses) == ClosedCounts(Len(stepsOrder), statuses)

(* ------------------------------ checkStepDrift ------------------------ *)

\* the drift condition of line 187
IsDrifting_Strict(age, thresholdMinutes, closed) ==
    age > thresholdMinutes /\ closed = 0
IsDrifting(age, thresholdMinutes, closed) ==
    age >= thresholdMinutes /\ closed = 0

DriftBranch == <<"p", "-", "c", "-", "1">>
DriftBead == <<"x">>
DriftWisp == <<"w">>

\* checkStepDrift(thresholdMinutes), stepDriftRig being the --rig flag.
\* cwdOk: the town is found; branchOk: findDoltBranch finds the polecat's
\* branch; wispOk: findWispID finds the molecule; showOk: bd show of the
\* wisp succeeds; tmuxOk: sessionAgeMinutes reads the session's creation time.
checkStepDrift(thresholdMinutes) ==
    \E branchOk, wispOk, showOk \in BOOLEAN :
        LET hook == IF pole.hooked THEN DriftBead ELSE <<>>
            branch == IF branchOk THEN DriftBranch ELSE <<>>
            wispID == IF hook # <<>> /\ wispOk THEN DriftWisp ELSE <<>>
            statuses == readStepStatus(wispID, branch, showOk)
            errMsg == IF branch = <<>> /\ hook # <<>>
                      THEN "could not find Dolt branch"
                      ELSE IF wispID = <<>> /\ hook # <<>>
                      THEN "could not find attached molecule" ELSE ""
        IN  /\ UNCHANGED pole
            /\ \E closed \in countClosedSteps(statuses) :
               \E stepDriftRig \in DriftRigFlags, cwdOk, tmuxOk \in BOOLEAN :
                 LET age == IF tmuxOk THEN pole.age ELSE 0
                 IN  driftEv' =
                       [op |-> "checkStepDrift", threshold |-> thresholdMinutes,
                        results |->
                          IF ~cwdOk \/ stepDriftRig \notin {<<>>, DriftRig} THEN <<>>
                          ELSE << [Rig |-> DriftRig, Bead |-> hook, AgeMin |-> age,
                                   Closed |-> closed, Total |-> Len(stepsOrder),
                                   Drifting |-> IsDrifting(age, thresholdMinutes, closed),
                                   Nudged |-> FALSE, Branch |-> branch,
                                   Error |-> errMsg] >>]

(* ------------------------------- the polecat -------------------------- *)

\* the polecat closes its next step, on its branch
PolecatCloseStep ==
    /\ pole.hooked
    /\ Cardinality(pole.closed) < Len(WispTitles)
    /\ pole' = [pole EXCEPT !.closed = 1..(Cardinality(pole.closed) + 1)]
    /\ driftEv' = NoDriftEv

\* a minute of the session passes
SessionAges ==
    /\ pole.age < MaxAge
    /\ pole' = [pole EXCEPT !.age = pole.age + 1]
    /\ driftEv' = NoDriftEv

(* ====================================================================== *)
(* Part 7 (specification SpecCrew): the crew workspace manager of         *)
(* internal/crew/manager.go: Manager.Add, Manager.Remove, Manager.Get and *)
(* setupSharedBeads, over the worker directories <rig>/crew/<name> of one *)
(* rig.  Every file system and git step of a call can fail.               *)
(* ====================================================================== *)

\* the names the manager is called with
CrewNames == {"max", "joe"}

\* the rig of the manager: rig.Name and rig.Path
CrewRig == "gastown"
CrewRigPath == <<"town", "gastown">>

VARIABLES
    workers,   \* name -> the directory <rig>/crew/<name> and what it holds
    shared,    \* which shared stores of the rig exist on disk
    crewEv     \* the last call of the manager that returned, and the
               \* worker directory it found

CrewVars == <<workers, shared, crewEv>>

\* the values of time.Now() in one behaviour
MaxCrewTime == 2
CrewTimes == 1..MaxCrewTime

\* crewDir(name)
crewDir(name) == CrewRigPath \o <<"crew", name>>

\* a worker directory that does not exist
NoDir ==
    [dir |-> FALSE, repo |-> FALSE, branch |-> "", dirty |-> FALSE,
     mail |-> FALSE, redirect |-> <<>>, prompt |-> FALSE, state |-> <<>>]

\* what a git clone that failed after it created the directory leaves
PartialClone == [NoDir EXCEPT !.dir = TRUE]

\* what a git clone that succeeded leaves: a clean working tree on main
FreshClone == [NoDir EXCEPT !.dir = TRUE, !.repo = TRUE, !.branch = "main"]

NoCrewEv ==
    [op |-> "none", name |-> "", to |-> "", force |-> FALSE, err |-> "",
     before |-> NoDir, worker |-> <<>>]

CrewIdle ==
    /\ workers = [n \in CrewNames |-> NoDir]
    /\ shared = [mayor |-> FALSE, root |-> FALSE]
    /\ crewEv = NoCrewEv

\* a rig with no worker yet; either shared store may be missing
CrewInit ==
    /\ workers = [n \in CrewNames |-> NoDir]
    /\ shared \in [mayor : BOOLEAN, root : BOOLEAN]
    /\ crewEv = NoCrewEv

\* Manager.exists(name): os.Stat of the worker directory succeeds
exists(name) == workers[name].dir

\* the CrewWorker record that Add persists
CrewWorker(name, branchName, stamp) ==
    [Name |-> name, Rig |-> CrewRig, ClonePath |-> crewDir(name),
     Branch |-> branchName, CreatedAt |-> stamp, UpdatedAt |-> stamp]

\* the zero time.Time of a record that was never stamped
ZeroTime == 0

\* time does not run backwards: the stamp is not before any stamp on disk
NotBefore(stamp) ==
    \A n \in CrewNames :
        workers[n].state # <<>> => workers[n].state[1].UpdatedAt <= stamp

\* the earliest value time.Now() can have
EarliestTime == CHOOSE t \in CrewTimes :
                   NotBefore(t) /\ \A u \in CrewTimes : NotBefore(u) => t <= u

\* Manager.loadState(name): the record of state.json, or a minimal record
\* when the state file is missing
loadState(name) ==
    IF workers[name].state = <<>>
    THEN [Name |-> name, Rig |-> CrewRig, ClonePath |-> crewDir(name),
          Branch |-> "", CreatedAt |-> ZeroTime, UpdatedAt |-> ZeroTime]
    ELSE workers[name].state[1]

\* Manager.Get(name): the worker, or no worker and ErrCrewNotFound
Get(name) ==
    IF ~exists(name)
    THEN [worker |-> <<>>, err |-> "ErrCrewNotFound"]
    ELSE [worker |-> <<loadState(name)>>, err |-> ""]

\* the two contents setupSharedBeads writes into <worker>/.beads/redirect:
\* the relative path and the newline that ends it
MayorRedirect == <<"../../mayor/rig/.beads", "\n">>
RootRedirect == <<"../../.beads", "\n">>

\* Manager.setupSharedBeads(crewPath) on the worker directory w: mkdirOk and
\* writeOk say whether os.MkdirAll of <worker>/.beads and os.WriteFile of
\* the redirect file succeed
setupSharedBeads(w, mkdirOk, writeOk) ==
    IF ~shared.mayor /\ ~shared.root
    THEN [w |-> w, err |-> "no shared beads database found"]
    ELSE IF ~mkdirOk THEN [w |-> w, err |-> "creating crew .beads dir"]
    ELSE IF ~writeOk THEN [w |-> w, err |-> "creating redirect file"]
    ELSE [w |-> [w EXCEPT !.redirect = IF shared.mayor THEN MayorRedirect
                                       ELSE RootRedirect],
          err |-> ""]

\* the steps of Add that return an error, in the order Add takes them
AddSteps ==
    <<"creating crew dir", "cloning rig", "creating branch",
      "checking out branch", "creating mail dir", "creating CLAUDE.md",
      "saving state">>

\* _ = os.RemoveAll(crewPath): the directory is gone, or, when RemoveAll
\* fails, is still there; the error is dropped
RollbackAdd(w, rmOk) == IF rmOk THEN NoDir ELSE w

\* what Add(name, createBranch) leaves of the worker directory and returns,
\* when the step failAt of AddSteps fails (0: none does)
AddOutcome(name, createBranch, failAt, cloneLeft, rmOk, mkdirOk, writeOk, stamp) ==
    LET branchName == IF createBranch THEN "crew/" \o name ELSE "main"
        branched == [FreshClone EXCEPT !.branch = branchName]
        mailed == [branched EXCEPT !.mail = TRUE]
        beads == setupSharedBeads(mailed, mkdirOk, writeOk).w
        prompted == [beads EXCEPT !.prompt = TRUE]
        saved == [prompted EXCEPT
                     !.state = <<CrewWorker(name, branchName, stamp)>>]
        Failed(w) == [w |-> w, err |-> AddSteps[failAt], worker |-> <<>>]
    IN  IF failAt = 1 THEN Failed(NoDir)
        ELSE IF failAt = 2
        THEN Failed(IF cloneLeft THEN PartialClone ELSE NoDir)
        ELSE IF createBranch /\ failAt = 3
        THEN Failed(RollbackAdd(FreshClone, rmOk))
        ELSE IF createBranch /\ failAt = 4
        THEN Failed(RollbackAdd(FreshClone, rmOk))
        ELSE IF failAt = 5 THEN Failed(RollbackAdd(branched, rmOk))
        ELSE IF failAt = 6 THEN Failed(RollbackAdd(beads, rmOk))
        ELSE IF failAt = 7 THEN Failed(RollbackAdd(prompted, rmOk))
        ELSE [w |-> saved, err |-> "",
              worker |-> <<CrewWorker(name, branchName, stamp)>>]

\* the outcomes of the file system and git steps that an Add in which the
\* step failAt fails gets to
AddReaches(createBranch, failAt, cloneLeft, rmOk, mkdirOk, writeOk) ==
    /\ failAt \in {3, 4} => createBranch
    /\ cloneLeft => failAt = 2
    /\ ~rmOk => failAt >= 3
    /\ ~mkdirOk \/ ~writeOk => failAt \in {0, 6, 7}
    /\ ~mkdirOk => writeOk

\* Manager.Add(name, createBranch)
Add(name, createBranch) ==
    /\ IF exists(name)
       THEN /\ crewEv' = [op |-> "Add", name |-> name, to |-> "", force |-> FALSE,
                          err |-> "ErrCrewExists", before |-> workers[name],
                          worker |-> <<>>]
            /\ UNCHANGED workers
       ELSE \E failAt \in 0..Len(AddSteps), cloneLeft, rmOk, mkdirOk, writeOk \in BOOLEAN :
               /\ AddReaches(createBranch, failAt, cloneLeft, rmOk, mkdirOk, writeOk)
               /\ LET out == AddOutcome(name, createBranch, failAt, cloneLeft,
                                        rmOk, mkdirOk, writeOk, EarliestTime)
                  IN  /\ workers' = [workers EXCEPT ![name] = out.w]
                      /\ crewEv' = [op |-> "Add", name |-> name, to |-> "",
                                    force |-> FALSE, err |-> out.err,
                                    before |-> workers[name],
                                    worker |-> out.worker]
    /\ UNCHANGED shared

\* git.HasUncommittedChanges() in the worker directory w: the answer of git
\* status, or an error when git cannot run there
HasUncommittedChanges(w, gitOk) ==
    IF w.repo /\ gitOk THEN [hasChanges |-> w.dirty, err |-> FALSE]
    ELSE [hasChanges |-> FALSE, err |-> TRUE]

\* Manager.Remove(name, force)
Remove(name, force) ==
    /\ LET Returns(e) == crewEv' = [op |-> "Remove", name |-> name, to |-> "",
                                    force |-> force, err |-> e,
                                    before |-> workers[name],
                                    worker |-> <<>>]
       IN  IF ~exists(name)
           THEN Returns("ErrCrewNotFound") /\ UNCHANGED workers
           ELSE \E gitOk, rmOk \in BOOLEAN :
                   LET st == HasUncommittedChanges(workers[name], gitOk)
                   IN  IF ~force /\ ~st.err /\ st.hasChanges
                       THEN Returns("ErrHasChanges") /\ UNCHANGED workers
                       ELSE IF ~rmOk
                       THEN Returns("removing crew dir") /\ UNCHANGED workers
                       ELSE /\ Returns("")
                            /\ workers' = [workers EXCEPT ![name] = NoDir]
    /\ UNCHANGED shared

\* a rig in which Add has run for each name or not: no directory, the
\* workspace of an Add that succeeded (on its own branch or on main), or
\* the directory without state file of an Add whose saveState failed and
\* whose rollback failed too
RenameInit ==
    /\ shared \in [mayor : BOOLEAN, root : BOOLEAN]
    /\ workers \in
          LET LeftByAdd(n) ==
                  {NoDir} \cup
                  {AddOutcome(n, cb, failAt, FALSE, failAt = 0, TRUE, TRUE, 1).w :
                      cb \in BOOLEAN, failAt \in {0, 7}}
          IN  {ws \in [CrewNames -> UNION {LeftByAdd(n) : n \in CrewNames}] :
                  \A n \in CrewNames : ws[n] \in LeftByAdd(n)}
    /\ crewEv = NoCrewEv

\* Manager.Rename(oldName, newName).
\* renameOk, backOk: os.Rename of the directory and the os.Rename that rolls
\*   it back succeed; the error of the second is dropped
\* loadOk: os.ReadFile and json.Unmarshal of the state file succeed
\* saveOk: os.WriteFile of the state file succeeds
Rename(oldName, newName) ==
    /\ UNCHANGED shared
    /\ LET Returns(e) == crewEv' = [op |-> "Rename", name |-> oldName,
                                    to |-> newName, force |-> FALSE, err |-> e,
                                    before |-> NoDir,
                                    worker |-> <<>>]
           moved == [workers EXCEPT ![newName] = workers[oldName],
                                    ![oldName] = NoDir]
           RolledBack(backOk) == IF backOk THEN workers ELSE moved
       IN  IF ~exists(oldName)
           THEN Returns("ErrCrewNotFound") /\ UNCHANGED workers
           ELSE IF exists(newName)
           THEN Returns("ErrCrewExists") /\ UNCHANGED workers
           ELSE \E renameOk, loadOk, saveOk, backOk \in BOOLEAN, stamp \in CrewTimes :
                   /\ NotBefore(stamp)
                   /\ ~loadOk => workers[oldName].state # <<>>
                   /\ IF ~renameOk
                      THEN Returns("renaming crew dir") /\ UNCHANGED workers
                      ELSE IF ~loadOk
                      THEN /\ Returns("loading state")
                           /\ workers' = RolledBack(backOk)
                      ELSE IF ~saveOk
                      THEN /\ Returns("saving state")
                           /\ workers' = RolledBack(backOk)
                      ELSE LET loaded == IF moved[newName].state = <<>>
                                         THEN [Name |-> newName, Rig |-> CrewRig,
                                               ClonePath |-> crewDir(newName),
                                               Branch |-> "",
                                               CreatedAt |-> ZeroTime,
                                               UpdatedAt |-> ZeroTime]
                                         ELSE moved[newName].state[1]
                               crew == [loaded EXCEPT
                                           !.Name = newName,
                                           !.ClonePath = crewDir(newName),
                                           !.UpdatedAt = stamp]
                           IN  /\ Returns("")
                               /\ workers' = [moved EXCEPT
                                                 ![newName].state = <<crew>>]

\* the user of a workspace edits a file of its working tree, or commits
\* what was edited
WorkerEdits(name) ==
    /\ workers[name].repo
    /\ workers' = [workers EXCEPT ![name].dirty = ~workers[name].dirty]
    /\ crewEv' = NoCrewEv
    /\ UNCHANGED shared

(* ----------------- claims about the polecat health supervisor --------- *)

\* the check that returned last read an agent issue whose column is state
Checked(state) == hev.op = "checkPolecatHealth" /\ hev.bead.agent_state = state

\* the age of the agent issue the last check read, when it read it
CheckedAge == hev.at - hev.bead.updated_at

\* the session gt-myr-mycat was missing when the last check probed
SessionWasMissing == <<"g", "t", "-", "m", "-", "c">> \notin hev.sessions

\* C12: in the state in which checkPolecatHealth returns for a polecat whose
\* agent_state column is spawning and whose updated_at is at most 5 minutes
\* before the check, it has logged that the polecat is spawning, has not
\* logged CRASH DETECTED and has not restarted the polecat, with and
\* without a session.
C12_SpawningGuardSkips ==
    (Checked("spawning") /\ CheckedAge <= 5) =>
        /\ "spawning" \in hev.log
        /\ "CRASH DETECTED" \notin hev.log
        /\ ~hev.restart

\* C12 witness: a check skipped a spawning polecat that has no session
C12_Witness ==
    /\ Checked("spawning")
    /\ CheckedAge <= 5
    /\ "spawning" \in hev.log
    /\ <<"g", "t", "-", "m", "-", "c">> \notin sessions

\* C13: in the state in which checkPolecatHealth returns for a polecat whose
\* column is working, or spawning with updated_at more than 5 minutes before
\* the check, it has logged CRASH DETECTED exactly when the session
\* gt-<rig>-<name> was missing, and has restarted the polecat only then; for
\* a polecat whose column is idle, done or crashed it has logged nothing,
\* probed nothing and restarted nothing.
C13_CrashIffSessionMissing ==
    /\ (Checked("working") \/ (Checked("spawning") /\ CheckedAge > 5)) =>
          /\ hev.probed
          /\ "CRASH DETECTED" \in hev.log <=> SessionWasMissing
          /\ hev.restart => SessionWasMissing
    /\ (Checked("idle") \/ Checked("done") \/ Checked("crashed")) =>
          /\ hev.log = {}
          /\ ~hev.probed
          /\ ~hev.restart

\* C13 witness: the spawning guard of a polecat had expired, its session was
\* missing, and the check logged the crash and restarted it
C13_Witness ==
    /\ Checked("spawning")
    /\ CheckedAge > 5
    /\ hev.log = {"Spawning guard expired", "CRASH DETECTED"}
    /\ hev.restart

\* what a check logs for an agent issue with the column state, of the age
\* age, when the session is or is not missing
LogOfColumn(state, age, missing) ==
    IF state = "spawning" /\ age <= 5 THEN {"spawning"}
    ELSE IF state \in {"spawning", "working"}
    THEN (IF state = "spawning" THEN {"Spawning guard expired"} ELSE {})
         \cup (IF missing THEN {"CRASH DETECTED"} ELSE {})
    ELSE {}

\* C14: what checkPolecatHealth has logged when it returns is a function of
\* the agent_state column, updated_at and the presence of the session: the
\* same for every description; and for the column working, a description
\* that says spawning and a missing session it has logged CRASH DETECTED
\* and not that the polecat is spawning.
C14_ColumnDecides ==
    hev.op = "checkPolecatHealth" =>
        /\ hev.log = LogOfColumn(hev.bead.agent_state, CheckedAge,
                                 hev.probed /\ SessionWasMissing)
        /\ hev.restart => "CRASH DETECTED" \in hev.log
        /\ (Checked("working") /\ hev.bead.description = "spawning"
                /\ SessionWasMissing)
              => hev.log = {"CRASH DETECTED"}

\* C14 witness: the column said working, the description still spawning,
\* updated_at was recent, the session was missing: the check logged the crash
C14_Witness ==
    /\ Checked("working")
    /\ hev.bead.description = "spawning"
    /\ CheckedAge <= 5
    /\ SessionWasMissing
    /\ "CRASH DETECTED" \in hev.log

\* the spawn has missed the grace window: the session was started, or is
\* still to be started, more than 5 minutes after the agent issue was created
SpawnMissedWindow ==
    \/ sling.late
    \/ sling.pc = "bead" /\ now - bead.updated_at > 5

\* C15: while gt sling spawns a polecat and heartbeats check it, as long as
\* the spawn starts the session within 5 minutes of creating the agent issue
\* no check restarts the polecat, and at most one process has been launched
\* for it.
C15_NoDoubleSpawn ==
    ~SpawnMissedWindow => (launched <= 1 /\ ~hev.restart)

\* C15 witness: the spawn is complete and in time, and a heartbeat has
\* checked the polecat between the creation of its agent issue and the start
\* of its session
C15_Witness ==
    /\ sling.pc = "done"
    /\ ~sling.late
    /\ launched = 1
    /\ Checked("spawning")
    /\ hev.log = {"spawning"}

(* --------------------- claims about the step-drift detector ----------- *)

\* C16: in the state in which checkStepDrift returns, the polecat it reports
\* on is marked drifting exactly when the age of its session is at least the
\* threshold and it has closed none of its canonical steps.
C16_DriftExactlyWhenOldAndNoneClosed ==
    driftEv.op = "checkStepDrift" =>
        \A i \in 1..Len(driftEv.results) :
            driftEv.results[i].Drifting
                <=> (pole.age >= driftEv.threshold /\ pole.closed = {})

(* --------------------- claims about the crew manager ------------------ *)

\* C18: when Remove(name, false) returns for a worker whose working tree has
\* uncommitted changes, it has returned ErrHasChanges and the worker
\* directory is as it was; a Remove that deleted the directory was forced
\* or found a clean working tree.
C18_RemoveKeepsUncommittedWork ==
    crewEv.op = "Remove" =>
        /\ ~crewEv.force /\ crewEv.before.dirty =>
               /\ crewEv.err = "ErrHasChanges"
               /\ workers[crewEv.name] = crewEv.before
        /\ crewEv.before.dir /\ ~workers[crewEv.name].dir =>
               crewEv.force \/ ~crewEv.before.dirty

\* C19: when Add returns ErrCrewExists the worker directory is as it was,
\* and when Add returns any other error no worker directory of that name
\* is left, so that Get finds no worker of that name.
C19_AddFailureLeavesNothing ==
    crewEv.op = "Add" =>
        /\ crewEv.err = "ErrCrewExists" =>
               crewEv.before.dir /\ workers[crewEv.name] = crewEv.before
        /\ crewEv.err \notin {"", "ErrCrewExists"} =>
               /\ ~workers[crewEv.name].dir
               /\ Get(crewEv.name).err = "ErrCrewNotFound"

\* C20: when Add returns success, the store directory of the worker holds a
\* redirect file whose path is ../../mayor/rig/.beads when the rig has
\* mayor/rig/.beads and ../../.beads when it has not.
C20_RedirectAfterAdd ==
    crewEv.op = "Add" /\ crewEv.err = "" =>
        /\ workers[crewEv.name].redirect # <<>>
        /\ workers[crewEv.name].redirect[1] =
               (IF shared.mayor THEN "../../mayor/rig/.beads"
                ELSE "../../.beads")

\* the worker record in the directory w as loadState reads it, without its
\* name, path and time of the last update
KeptFields(w) ==
    IF w.state = <<>> THEN <<>>
    ELSE [k \in DOMAIN w.state[1] \ {"Name", "ClonePath"} |-> w.state[1][k]]

\* C29: a call Rename(old, new) returns ErrCrewNotFound when old does not
\* exist and ErrCrewExists when new exists, and changes nothing then; when
\* it returns success the directory of old is gone, the one of new exists
\* with the content old had, and its record has Name = new, ClonePath = the
\* path of new and every other field as it was; when loading or saving the
\* record fails the worker exists under old and not under new.
C29_RenameMovesOrRollsBack ==
    [][crewEv'.op = "Rename" =>
          LET old == crewEv'.name
              new == crewEv'.to
              e == crewEv'.err
          IN  /\ ~workers[old].dir => (e = "ErrCrewNotFound" /\ UNCHANGED workers)
              /\ (workers[old].dir /\ workers[new].dir) =>
                    (e = "ErrCrewExists" /\ UNCHANGED workers)
              /\ e = "" =>
                    /\ ~workers'[old].dir
                    /\ workers'[new].dir
                    /\ [workers'[new] EXCEPT !.state = <<>>]
                          = [workers[old] EXCEPT !.state = <<>>]
                    /\ workers'[new].state # <<>>
                    /\ workers'[new].state[1].Name = new
                    /\ workers'[new].state[1].ClonePath = crewDir(new)
                    /\ workers[old].state # <<>> =>
                          KeptFields(workers'[new]) = KeptFields(workers[old])
              /\ e \in {"loading state", "saving state"} =>
                    (workers'[old].dir /\ ~workers'[new].dir)
      ]_CrewVars

(* ====================================================================== *)
(* Part 8 (specification SpecVersion): the tool version test of           *)
(* internal/doctor/migration_check.go, MigrationReadinessCheck.           *)
(* bdSupportsDolt, on version strings given character by character.       *)
(* ====================================================================== *)

\* the words the version strings are made of
WordBd == <<"b", "d">>
WordGt == <<"g", "t">>
WordVersion == <<"v", "e", "r", "s", "i", "o", "n">>
WordInvalid == <<"i", "n", "v", "a", "l", "i", "d">>
WordCommit == <<"(", "c", ")">>

\* the components a version number is made of: numbers on both sides of
\* 0.40, and components that are no number or only start with one
VersionParts ==
    {<<"0">>, <<"1">>, <<"3", "9">>, <<"4", "0">>, <<"4", "9">>,
     <<"x">>, <<"4", "0", "x">>, <<"-", "1">>, <<>>}

\* the third word of a version string: one, two or three components
VersionWords ==
    VersionParts
    \cup {a \o <<".">> \o b : a \in VersionParts, b \in VersionParts}
    \cup {a \o <<".">> \o b \o <<".">> \o <<"0">> :
            a \in VersionParts, b \in VersionParts}

\* the outputs of a version command that the test is applied to
VersionStrings ==
    {<<>>, WordInvalid, WordBd \o <<" ">> \o WordVersion}
    \cup {w1 \o <<" ">> \o w2 \o <<" ">> \o w3 \o tail :
            w1 \in {WordBd, WordGt},
            w2 \in {WordVersion, <<"v">>},
            w3 \in VersionWords,
            tail \in {<<>>, <<" ">> \o WordCommit}}

VARIABLES
    versionStr,   \* the version string under test
    supports      \* <<>> before the test, <<the boolean it returned>> after

VersionVars == <<versionStr, supports>>

VersionIdle == versionStr = <<>> /\ supports = <<TRUE>>

VersionInit == versionStr \in VersionStrings /\ supports = <<>>

\* strings.Split(s, sep) for a separator of one character
RECURSIVE Split(_, _)
Split(s, sep) ==
    LET i == IndexOf(s, sep)
    IN  IF i = 0 THEN <<s>>
        ELSE <<SubSeq(s, 1, i - 1)>> \o Split(SubSeq(s, i + 1, Len(s)), sep)

\* strings.Fields(s): the maximal runs of characters that are no space
Fields(s) == SelectSeq(Split(s, " "), LAMBDA f : f # <<>>)

\* the value of a decimal digit
DigitValue(c) ==
    CASE c = "0" -> 0 [] c = "1" -> 1 [] c = "2" -> 2 [] c = "3" -> 3
      [] c = "4" -> 4 [] c = "5" -> 5 [] c = "6" -> 6 [] c = "7" -> 7
      [] c = "8" -> 8 [] c = "9" -> 9

\* the number of leading decimal digits of s
RECURSIVE DigitRun(_)
DigitRun(s) ==
    IF s # <<>> /\ Head(s) \in Digits THEN 1 + DigitRun(Tail(s)) ELSE 0

\* the value of a string of decimal digits
RECURSIVE DecimalValue(_)
DecimalValue(s) ==
    IF s = <<>> THEN 0
    ELSE 10 * DecimalValue(SubSeq(s, 1, Len(s) - 1)) + DigitValue(s[Len(s)])

\* fmt.Sscanf(s, "%d", &n) into an n that is 0: an optional sign and the
\* decimal digits that follow it; what comes after them is not read, and
\* with no digit the scan fails and n stays 0
Sscanf_d(s) ==
    LET signed == s # <<>> /\ Head(s) \in {"+", "-"}
        body == IF signed THEN Tail(s) ELSE s
        n == DecimalValue(SubSeq(body, 1, DigitRun(body)))
    IN  IF DigitRun(body) = 0 THEN 0
        ELSE IF signed /\ Head(s) = "-" THEN 0 - n ELSE n

\* MigrationReadinessCheck.bdSupportsDolt(versionStr)
bdSupportsDolt(str) ==
    LET parts == Fields(str)
        vParts == Split(parts[3], ".")
        major == Sscanf_d(vParts[1])
        minor == Sscanf_d(vParts[2])
    IN  IF Len(parts) < 3 THEN FALSE
        ELSE IF Len(vParts) < 2 THEN FALSE
        ELSE major > 0 \/ (major = 0 /\ minor >= 40)

\* checkVersions applies the test to the output of bd version
CheckVersion ==
    /\ supports = <<>>
    /\ supports' = <<bdSupportsDolt(versionStr)>>
    /\ UNCHANGED versionStr

(* --------------------- claims about the tool version test ------------- *)

\* a string of at least one decimal digit
IsNumber(s) == s # <<>> /\ \A i \in 1..Len(s) : s[i] \in Digits

\* the string has the form bd version MAJOR.MINOR...: its first two words
\* are bd and version, and its third word starts with a number, a dot and a
\* number
HasVersionForm(str) ==
    /\ Len(Fields(str)) >= 3
    /\ Fields(str)[1] = WordBd
    /\ Fields(str)[2] = WordVersion
    /\ LET w == Fields(str)[3]
           dot == IndexOf(w, ".")
       IN  /\ dot > 1
           /\ IsNumber(SubSeq(w, 1, dot - 1))
           /\ DigitRun(SubSeq(w, dot + 1, Len(w))) > 0

\* the (major, minor) of a string of that form is at least (0, 40)
AtLeast_0_40(str) ==
    LET w == Fields(str)[3]
        dot == IndexOf(w, ".")
        rest == SubSeq(w, dot + 1, Len(w))
        major == DecimalValue(SubSeq(w, 1, dot - 1))
        minor == DecimalValue(SubSeq(rest, 1, DigitRun(rest)))
    IN  major > 0 \/ minor >= 40

\* C21: bdSupportsDolt has returned true exactly when its argument has the
\* form bd version MAJOR.MINOR... with (major, minor) at least (0, 40); for
\* every string of another form it has returned false.
C21_SupportsDoltExactlyFrom_0_40 ==
    supports # <<>> =>
        (supports[1] <=> (HasVersionForm(versionStr) /\ AtLeast_0_40(versionStr)))

(* ====================================================================== *)
(* Part 9 (specification SpecTier): the cost tiers of                     *)
(* internal/config/cost_tier.go: ApplyCostTier and GetCurrentTier on one  *)
(* TownSettings value.                                                    *)
(* ====================================================================== *)

\* a Go map: nil, or the function kv from its keys to their values
NilGoMap == [isNil |-> TRUE, kv |-> <<>>]
GoMap(f) == [isNil |-> FALSE, kv |-> f]
MapLen(m) == Cardinality(DOMAIN m.kv)
MapKeys(m) == DOMAIN m.kv

\* m[k] of a map of strings: the zero value "" for a key that is missing
MapGet(m, k) == IF k \in DOMAIN m.kv THEN m.kv[k] ELSE ""

TierStandard == "standard"
TierEconomy == "economy"
TierBudget == "budget"

\* ValidCostTiers()
ValidCostTiers == <<TierStandard, TierEconomy, TierBudget>>

\* IsValidTier(tier)
IsValidTier(tier) == tier \in {TierStandard, TierEconomy, TierBudget}

\* CostTierRoleAgents(tier): nil for an invalid tier
CostTierRoleAgents(tier) ==
    CASE tier = TierStandard -> GoMap(<<>>)
      [] tier = TierEconomy ->
            GoMap(("mayor" :> "claude-sonnet") @@ ("deacon" :> "claude-haiku")
                  @@ ("witness" :> "claude-sonnet")
                  @@ ("refinery" :> "claude-sonnet"))
      [] tier = TierBudget ->
            GoMap(("mayor" :> "claude-sonnet") @@ ("deacon" :> "claude-haiku")
                  @@ ("witness" :> "claude-haiku")
                  @@ ("refinery" :> "claude-haiku")
                  @@ ("polecat" :> "claude-sonnet")
                  @@ ("crew" :> "claude-sonnet"))
      [] OTHER -> NilGoMap

\* claudeSonnetPreset() and claudeHaikuPreset()
claudeSonnetPreset ==
    [Command |-> "claude",
     Args |-> <<"--dangerously-skip-permissions", "--model", "sonnet">>]
claudeHaikuPreset ==
    [Command |-> "claude",
     Args |-> <<"--dangerously-skip-permissions", "--model", "haiku">>]

\* CostTierAgents(tier)
CostTierAgents_AlsoCustom(tier) ==
    CASE tier = TierStandard -> GoMap(<<>>)
      [] tier \in {TierEconomy, TierBudget} ->
            GoMap(("claude-sonnet" :> claudeSonnetPreset)
                  @@ ("claude-haiku" :> claudeHaikuPreset)
                  @@ ("custom-agent" :> claudeHaikuPreset))
      [] OTHER -> NilGoMap
CostTierAgents(tier) ==
    CASE tier = TierStandard -> GoMap(<<>>)
      [] tier \in {TierEconomy, TierBudget} ->
            GoMap(("claude-sonnet" :> claudeSonnetPreset)
                  @@ ("claude-haiku" :> claudeHaikuPreset))
      [] OTHER -> NilGoMap

\* ApplyCostTier(settings, tier): the settings it leaves and whether it
\* returns an error
ApplyCostTier_KeepsRoleAgents(s, tier) ==
    IF CostTierRoleAgents(tier).isNil THEN [settings |-> s, err |-> TRUE]
    ELSE [settings |-> [s EXCEPT !.CostTier = tier], err |-> FALSE]
ApplyCostTier(s, tier) ==
    LET roleAgents == CostTierRoleAgents(tier)
        agents == CostTierAgents(tier)
        existing == IF s.Agents.isNil THEN GoMap(<<>>) ELSE s.Agents
        kept == [n \in MapKeys(existing) \ {"claude-sonnet", "claude-haiku"}
                    |-> existing.kv[n]]
    IN  IF roleAgents.isNil THEN [settings |-> s, err |-> TRUE]
        ELSE [settings |->
                 [s EXCEPT !.RoleAgents = roleAgents,
                           !.Agents = IF tier = TierStandard THEN GoMap(kept)
                                      ELSE GoMap(agents.kv @@ existing.kv),
                           !.CostTier = tier],
              err |-> FALSE]

\* roleAgentsMatch(a, b)
roleAgentsMatch(a, b) ==
    IF MapLen(a) = 0 /\ MapLen(b) = 0 THEN TRUE
    ELSE IF MapLen(a) # MapLen(b) THEN FALSE
    ELSE \A k \in MapKeys(a) : MapGet(b, k) = a.kv[k]

\* GetCurrentTier(settings)
GetCurrentTier(s) ==
    LET matching == {i \in 1..Len(ValidCostTiers) :
                        roleAgentsMatch(s.RoleAgents,
                                        CostTierRoleAgents(ValidCostTiers[i]))}
    IN  IF /\ s.CostTier # ""
           /\ IsValidTier(s.CostTier)
           /\ roleAgentsMatch(s.RoleAgents, CostTierRoleAgents(s.CostTier))
        THEN s.CostTier
        ELSE IF matching # {}
        THEN ValidCostTiers[CHOOSE i \in matching : \A j \in matching : i <= j]
        ELSE ""

\* the role_agents mappings of the settings the calls start from: nil,
\* empty, those of the tiers, and mappings that are none of them
CustomRoleAgents ==
    {("mayor" :> "some-custom-agent"),
     ("mayor" :> "claude-sonnet") @@ ("deacon" :> "claude-haiku")
         @@ ("witness" :> "claude-sonnet"),
     ("mayor" :> "claude-sonnet") @@ ("deacon" :> "claude-haiku")
         @@ ("witness" :> "claude-sonnet") @@ ("boot" :> "")}
RoleAgentsValues ==
    {NilGoMap} \cup {CostTierRoleAgents(t) : t \in {TierStandard, TierEconomy, TierBudget}}
    \cup {GoMap(f) : f \in CustomRoleAgents}

\* the agents of these settings: nil, empty, a custom agent, and a
\* claude-sonnet entry that is or is not the preset
CustomAgent == [Command |-> "custom", Args |-> <<>>]
AgentsValues ==
    {NilGoMap, GoMap(<<>>), GoMap("custom-agent" :> CustomAgent),
     GoMap(("custom-agent" :> CustomAgent)
           @@ ("claude-sonnet" :> claudeSonnetPreset)),
     GoMap(("claude-sonnet" :> CustomAgent)
           @@ ("claude-haiku" :> claudeHaikuPreset))}

\* the tiers the calls are made with: the valid ones and two that are not
TierArgs == {TierStandard, TierEconomy, TierBudget, "invalid", ""}

VARIABLES
    settings,   \* the TownSettings value
    tierEv      \* the last call that returned, and the settings it found

TierVars == <<settings, tierEv>>

NoSettings ==
    [RoleAgents |-> NilGoMap, Agents |-> NilGoMap, CostTier |-> "",
     DefaultAgent |-> ""]

NoTierEv ==
    [op |-> "none", tier |-> "", err |-> FALSE, got |-> "",
     before |-> NoSettings]

TierIdle == settings = NoSettings /\ tierEv = NoTierEv

TierInit ==
    /\ settings \in [RoleAgents : RoleAgentsValues, Agents : AgentsValues,
                     CostTier : TierArgs, DefaultAgent : {"claude", "gemini"}]
    /\ tierEv = NoTierEv

\* a call of ApplyCostTier(settings, tier)
ApplyTier(tier) ==
    LET out == ApplyCostTier(settings, tier)
    IN  /\ settings' = out.settings
        /\ tierEv' = [op |-> "ApplyCostTier", tier |-> tier, err |-> out.err,
                      got |-> "", before |-> settings]

\* a call of GetCurrentTier(settings)
ReadTier ==
    /\ tierEv' = [op |-> "GetCurrentTier", tier |-> "", err |-> FALSE,
                  got |-> GetCurrentTier(settings), before |-> settings]
    /\ UNCHANGED settings

(* --------------------- claims about the cost tiers -------------------- *)

\* C22: in the state in which ApplyCostTier(settings, t) has returned
\* success, t is one of standard, economy and budget and GetCurrentTier of
\* the settings is t.
C22_ApplyThenCurrentTier ==
    tierEv.op = "ApplyCostTier" /\ ~tierEv.err =>
        /\ tierEv.tier \in {"standard", "economy", "budget"}
        /\ GetCurrentTier(settings) = tierEv.tier

\* C22 witness: economy was applied to settings that were marked budget and
\* had a custom role mapping
C22_Witness ==
    /\ tierEv.op = "ApplyCostTier" /\ ~tierEv.err
    /\ tierEv.tier = "economy"
    /\ tierEv.before.CostTier = "budget"
    /\ tierEv.before.RoleAgents = GoMap("mayor" :> "some-custom-agent")
    /\ GetCurrentTier(settings) = "economy"

\* the agent entries other than claude-sonnet and claude-haiku
OtherAgents(s) ==
    [n \in MapKeys(s.Agents) \ {"claude-sonnet", "claude-haiku"}
        |-> s.Agents.kv[n]]

\* C23: when ApplyCostTier has returned an error the tier was invalid and
\* the settings are as they were; when it has returned success every field
\* other than RoleAgents, CostTier and Agents is as it was, every agent
\* entry other than claude-sonnet and claude-haiku is as it was, and these
\* two are missing for standard and the presets for economy and budget.
C23_ApplyChangesOnlyTierFields ==
    tierEv.op = "ApplyCostTier" =>
        /\ tierEv.err <=> tierEv.tier \notin {"standard", "economy", "budget"}
        /\ tierEv.err => settings = tierEv.before
        /\ ~tierEv.err =>
              /\ settings.DefaultAgent = tierEv.before.DefaultAgent
              /\ OtherAgents(settings) = OtherAgents(tierEv.before)
              /\ IF tierEv.tier = "standard"
                 THEN MapKeys(settings.Agents)
                         \cap {"claude-sonnet", "claude-haiku"} = {}
                 ELSE /\ {"claude-sonnet", "claude-haiku"}
                            \subseteq MapKeys(settings.Agents)
                      /\ settings.Agents.kv["claude-sonnet"] = claudeSonnetPreset
                      /\ settings.Agents.kv["claude-haiku"] = claudeHaikuPreset

\* C23 witness: standard was applied to settings with a custom agent and a
\* claude-sonnet entry, and left the custom agent alone
C23_Witness ==
    /\ tierEv.op = "ApplyCostTier" /\ ~tierEv.err
    /\ tierEv.tier = "standard"
    /\ tierEv.before.Agents = GoMap(("custom-agent" :> CustomAgent)
                                    @@ ("claude-sonnet" :> claudeSonnetPreset))
    /\ settings.Agents = GoMap("custom-agent" :> CustomAgent)

\* the two mappings have the same roles and the same agent for each role;
\* a nil mapping is an empty one
SameRoleAgents(a, b) ==
    /\ MapKeys(a) = MapKeys(b)
    /\ \A k \in MapKeys(a) : a.kv[k] = b.kv[k]

\* C38: in the state in which GetCurrentTier(settings) has returned, a
\* result that is not empty is a valid tier whose role mapping is exactly
\* settings.RoleAgents, and the result is empty when RoleAgents is the
\* mapping of no tier; whatever the CostTier field holds.
C38_TierOnlyForExactMapping ==
    tierEv.op = "GetCurrentTier" =>
        IF tierEv.got # ""
        THEN /\ IsValidTier(tierEv.got)
             /\ SameRoleAgents(settings.RoleAgents, CostTierRoleAgents(tierEv.got))
        ELSE \A t \in {TierStandard, TierEconomy, TierBudget} :
                ~SameRoleAgents(settings.RoleAgents, CostTierRoleAgents(t))

(* ====================================================================== *)
(* Part 10 (specification SpecDoctor): the doctor checks of               *)
(* internal/doctor/migration_check.go that read the stores' metadata:     *)
(* UnmigratedRigCheck.Run, and DoltMetadataCheck.Run and Fix, called one  *)
(* after the other on the files of part 3.                                *)
(* ====================================================================== *)

\* the metadata.json that points rigName at the server
DoltDoc(rigName) == MarshalMap(SetServerFields(<<>>, rigName))

\* the files the stores start with
TownDoctorDocs ==
    {File("nodir"), File("absent"), File("null"), TestDoc, BigDoc, DoltDoc(HQ)}
MayorDoctorDocs == {File("nodir"), File("absent"), SqliteDoc, DoltDoc(R1)}
RootDoctorDocs == {File("nodir"), SqliteDoc, DoltDoc(R1)}

VARIABLES
    rigsJson,          \* the rigs listed in mayor/rigs.json
    dataDir,           \* whether <townRoot>/.dolt-data exists
    missingMetadata,   \* DoltMetadataCheck.missingMetadata, in order
    docLog             \* the calls of the checks that returned, oldest first

DoctorVars == <<rigsJson, dataDir, missingMetadata, docLog>>

\* how many calls of the checks are followed
MaxCalls == 3

DoctorIdle ==
    /\ rigsJson = {}
    /\ dataDir = FALSE
    /\ missingMetadata = <<>>
    /\ docLog = <<>>

DoctorInit ==
    /\ rigsJson \in SUBSET {R1}
    /\ dataDir \in BOOLEAN
    /\ dataDbs # {} => dataDir
    /\ missingMetadata = <<>>
    /\ docLog = <<>>

\* the files of a town the doctor looks at
DoctorMetaInit ==
    /\ meta \in {m \in [Stores -> TownDoctorDocs \cup MayorDoctorDocs] :
                    /\ m[<<HQ, "town">>] \in TownDoctorDocs
                    /\ m[<<R1, "mayor">>] \in MayorDoctorDocs
                    /\ m[<<R1, "root">>] \in RootDoctorDocs}
    /\ legacy = {}
    /\ redirects = {}
    /\ rigEv = NoRigEv

\* a call of a check returns
DocReturn(op, status, err, details) ==
    LET call == [op |-> op, status |-> status, err |-> err,
                 details |-> details, pre |-> meta,
                 missing |-> missingMetadata]
    IN  /\ Len(docLog) < MaxCalls
        /\ docLog' = Append(docLog, call)

(* --------------------------- UnmigratedRigCheck ----------------------- *)

\* UnmigratedRigCheck.getBackend(beadsDir) on the store's file f
getBackend(f) ==
    IF f.t = "nodir" THEN <<>>
    ELSE IF f.t = "absent" THEN <<"sqlite">>
    ELSE IF f.t = "null" THEN <<"sqlite">>
    ELSE IF f.t # "object" THEN <<"unknown">>
    ELSE IF "backend" \notin DOMAIN f.obj THEN <<"sqlite">>
    ELSE IF f.obj["backend"].t # "str" THEN <<"unknown">>
    ELSE IF f.obj["backend"].s = <<>> THEN <<"sqlite">>
    ELSE f.obj["backend"].s

\* the Details of UnmigratedRigCheck.Run
Unmigrated ==
    (IF getBackend(meta[<<HQ, "town">>]) = <<"sqlite">>
     THEN {<<"town-root">>} ELSE {})
    \cup {rigName \in rigsJson :
            getBackend(meta[<<rigName, "mayor">>]) = <<"sqlite">>}

\* UnmigratedRigCheck.Run
UnmigratedRun ==
    /\ DocReturn("UnmigratedRigCheck.Run",
                 IF Unmigrated = {} THEN "OK" ELSE "Warning", FALSE, Unmigrated)
    /\ UNCHANGED <<meta, legacy, redirects, rigEv, rigsJson, dataDir,
                   missingMetadata>>

(* ---------------------------- DoltMetadataCheck ----------------------- *)

\* DoltMetadataCheck.findRigBeadsDir: the store, or <<>> for a rig that has
\* neither
findRigBeadsDir(m, rigName) ==
    IF rigName = HQ THEN <<HQ, "town">>
    ELSE IF DirExists(m, <<rigName, "mayor">>) THEN <<rigName, "mayor">>
    ELSE IF DirExists(m, <<rigName, "root">>) THEN <<rigName, "root">>
    ELSE <<>>

\* whether Run puts rigName on its list
LacksDoltMetadata(m, rigName) ==
    LET beadsDir == findRigBeadsDir(m, rigName)
    IN  IF beadsDir = <<>> THEN TRUE
        ELSE ~hasDoltMetadata(m[beadsDir], rigName)

\* the list of Run: hq first, then the rigs of rigs.json that have a
\* database
MissingList ==
    (IF HQ \in dataDbs /\ LacksDoltMetadata(meta, HQ) THEN <<HQ>> ELSE <<>>)
    \o (IF R1 \in rigsJson /\ R1 \in dataDbs /\ LacksDoltMetadata(meta, R1)
        THEN <<R1>> ELSE <<>>)

\* DoltMetadataCheck.Run
MetaRun ==
    /\ IF ~dataDir
       THEN /\ missingMetadata' = <<>>
            /\ DocReturn("DoltMetadataCheck.Run", "OK", FALSE, {})
       ELSE /\ missingMetadata' = MissingList
            /\ DocReturn("DoltMetadataCheck.Run",
                         IF MissingList = <<>> THEN "OK" ELSE "Warning", FALSE,
                         {MissingList[i] : i \in 1..Len(MissingList)})
    /\ UNCHANGED <<meta, legacy, redirects, rigEv, rigsJson, dataDir>>

\* DoltMetadataCheck.writeDoltMetadata(townRoot, rigName) on the files m:
\* the files after it and "ok", "err" or "panic" (assignment to the nil map
\* that json.Unmarshal leaves for the document null). os.WriteFile that
\* fails leaves the file as it was or, when torn, truncated.
writeDoltMetadata(m, rigName, mkdirOk, writeOk, torn) ==
    LET beadsDir == findRigBeadsDir(m, rigName)
        f == m[beadsDir]
        existing == IF Readable(f) THEN UnmarshalMap(f) ELSE <<>>
        data == MarshalMap(SetServerFields(existing, rigName))
        m1 == MkdirAll(m, beadsDir)
    IN  IF beadsDir = <<>> THEN [meta |-> m, res |-> "err"]
        ELSE IF Readable(f) /\ IsNilMap(f) THEN [meta |-> m, res |-> "panic"]
        ELSE IF ~DirExists(m, beadsDir) /\ ~mkdirOk
        THEN [meta |-> m, res |-> "err"]
        ELSE IF ~writeOk
        THEN [meta |-> IF torn THEN [m1 EXCEPT ![beadsDir] = File("empty")]
                       ELSE m1,
              res |-> "err"]
        ELSE [meta |-> [m1 EXCEPT ![beadsDir] = data], res |-> "ok"]

\* the loop of Fix from the i-th rig of its list on, in which the step
\* failAt fails (0: none does)
RECURSIVE FixEach(_, _, _, _, _)
FixEach(m, i, failAt, mkdirOk, torn) ==
    IF i > Len(missingMetadata) THEN [meta |-> m, res |-> "ok"]
    ELSE LET r == writeDoltMetadata(m, missingMetadata[i],
                                    i # failAt \/ mkdirOk, i # failAt, torn)
         IN  IF r.res # "ok" THEN r
             ELSE FixEach(r.meta, i + 1, failAt, mkdirOk, torn)

\* DoltMetadataCheck.Fix
MetaFix ==
    /\ \E failAt \in 0..Len(missingMetadata), mkdirOk, torn \in BOOLEAN :
          /\ failAt = 0 => mkdirOk /\ ~torn
          /\ LET r == FixEach(meta, 1, failAt, mkdirOk, torn)
             IN  /\ meta' = r.meta
                 /\ DocReturn("DoltMetadataCheck.Fix", r.res, r.res # "ok", {})
    /\ UNCHANGED <<legacy, redirects, rigEv, rigsJson, dataDir,
                   missingMetadata>>

(* --------------------- claims about the doctor checks ----------------- *)

\* the members of a metadata file, none for a file that holds no object
Members(f) == IF f.t = "object" THEN f.obj ELSE <<>>

\* C24: when DoltMetadataCheck.Run has reported a warning, the Fix after it
\* has returned no error and Run has been called again, with nothing else
\* in between, this Run has reported OK, and every store's metadata still
\* has every member it had before the Fix, other than the server fields,
\* with the value it had.
C24_FixThenRunIsOK ==
    (/\ Len(docLog) = 3
     /\ docLog[1].op = "DoltMetadataCheck.Run" /\ docLog[1].status = "Warning"
     /\ docLog[2].op = "DoltMetadataCheck.Fix" /\ ~docLog[2].err
     /\ docLog[3].op = "DoltMetadataCheck.Run")
    => /\ docLog[3].status = "OK"
       /\ \A st \in Stores :
             \A k \in DOMAIN Members(docLog[2].pre[st]) \ ServerKeys :
                /\ k \in DOMAIN Members(meta[st])
                /\ Members(meta[st])[k] = Members(docLog[2].pre[st])[k]

\* the store of rig R whose metadata says what backend R is on
StoreOf(R) == FindRigBeadsDir(meta, R)

\* the record of the store is one whose backend is not dolt: the file is
\* missing, or it is an object without the key backend or with another
\* backend than dolt
NotOnDolt(f) ==
    \/ f.t = "absent"
    \/ /\ f.t = "object"
       /\ \/ "backend" \notin DOMAIN f.obj
          \/ f.obj["backend"] # JStr(<<"dolt">>)

\* the record of the store says dolt
OnDolt(f) ==
    f.t = "object" /\ "backend" \in DOMAIN f.obj
        /\ f.obj["backend"] = JStr(<<"dolt">>)

\* C25: in the state in which UnmigratedRigCheck.Run returns, it lists the
\* town root exactly when the record of the town's store is not on dolt,
\* and a rig of rigs.json exactly when the record of the rig's store is
\* not on dolt (for stores whose record is a missing file or an object);
\* and it reports OK exactly when it lists nothing.
C25_UnmigratedExactlyNonDolt ==
    (docLog # <<>> /\ docLog[Len(docLog)].op = "UnmigratedRigCheck.Run") =>
        LET call == docLog[Len(docLog)]
            town == meta[<<HQ, "town">>]
        IN  /\ NotOnDolt(town) => <<"town-root">> \in call.details
            /\ OnDolt(town) => <<"town-root">> \notin call.details
            /\ \A R \in rigsJson :
                  /\ NotOnDolt(meta[StoreOf(R)]) => R \in call.details
                  /\ OnDolt(meta[StoreOf(R)]) => R \notin call.details
            /\ call.status = "OK" <=> call.details = {}

(* ====================================================================== *)
(* Part 11 (specification SpecFindBranch): findDoltBranch of              *)
(* internal/cmd/patrol_step_drift.go and PolecatBranchName of             *)
(* internal/doltserver/doltserver.go, with the dolt_branches table of the *)
(* rig database that the query of findDoltBranch reads.                   *)
(* ====================================================================== *)

\* time.Now().Unix() is Epoch to begin with and moves on by at most
\* MaxTicks seconds in one behaviour
Epoch == 1700000000
MaxTicks == 2

\* dolt_branches holds at most MaxRows polecat branches in one behaviour
MaxRows == 3

\* the polecats of the rig, by name
BranchPolecats == {<<"a">>, <<"a", "-", "b">>, <<"B">>}

VARIABLES
    doltBranches,  \* the rows of dolt_branches in the order of their
                   \* creation: the branch name and the polecat it was made for
    unixNow,       \* time.Now().Unix()
    fbEv           \* the call of findDoltBranch that returned in the last step

FindVars == <<doltBranches, unixNow, fbEv>>

NoFbEv == [op |-> "none", polecat |-> <<>>, got |-> <<>>, err |-> FALSE]

FindIdle ==
    /\ doltBranches = <<>>
    /\ unixNow = Epoch
    /\ fbEv = NoFbEv

\* %d of a number that is not negative
RECURSIVE Itoa(_)
Itoa(n) ==
    LET digit(d) == CHOOSE c \in Digits : DigitValue(c) = d
    IN  IF n < 10 THEN <<digit(n)>>
        ELSE Itoa(n \div 10) \o <<digit(n % 10)>>

WordPolecat == <<"p", "o", "l", "e", "c", "a", "t", "-">>
WordName == <<"n", "a", "m", "e">>

\* PolecatBranchName(polecatName) at the time unix:
\* fmt.Sprintf("polecat-%s-%d", strings.ToLower(polecatName), time.Now().Unix())
PolecatBranchName(polecatName, unix) ==
    WordPolecat \o ToLower(polecatName) \o <<"-">> \o Itoa(unix)

\* the LIKE pattern of findDoltBranch:
\* fmt.Sprintf("polecat-%s-%%", strings.ToLower(name))
BranchPattern(name) == WordPolecat \o ToLower(name) \o <<"-", "%">>

\* str LIKE pat: % stands for any run of characters, _ for any one
\* character, every other character for itself
RECURSIVE Like(_, _)
Like(str, pat) ==
    IF pat = <<>> THEN str = <<>>
    ELSE IF Head(pat) = "%"
    THEN Like(str, Tail(pat)) \/ (str # <<>> /\ Like(Tail(str), pat))
    ELSE /\ str # <<>>
         /\ Head(pat) = "_" \/ Head(pat) = Head(str)
         /\ Like(Tail(str), Tail(pat))

\* the characters of branch names in the order of their codes
ByteOrder ==
    <<"-", "0", "1", "2", "3", "4", "5", "6", "7", "8", "9", "_",
      "a", "b", "c", "d", "e", "f", "g", "h", "i", "j", "k", "l", "m",
      "n", "o", "p", "q", "r", "s", "t", "u", "v", "w", "x", "y", "z">>

CharCode(c) == CHOOSE i \in 1..Len(ByteOrder) : ByteOrder[i] = c

\* a sorts before b under ORDER BY name
RECURSIVE NameLess(_, _)
NameLess(a, b) ==
    IF b = <<>> THEN FALSE
    ELSE IF a = <<>> THEN TRUE
    ELSE IF Head(a) = Head(b) THEN NameLess(Tail(a), Tail(b))
    ELSE CharCode(Head(a)) < CharCode(Head(b))

\* SELECT name FROM dolt_branches WHERE name LIKE pat ORDER BY name DESC
\* LIMIT 1, as the lines of the csv output: the header and at most one row
SelectLatest(pat) ==
    LET rows == {doltBranches[i].name : i \in 1..Len(doltBranches)}
        hits == {n \in rows : Like(n, pat)}
    IN  IF hits = {} THEN <<WordName>>
        ELSE <<WordName,
               CHOOSE n \in hits : \A m \in hits : m = n \/ NameLess(m, n)>>

\* strings.HasPrefix
HasPrefix(str, prefix) ==
    Len(str) >= Len(prefix) /\ SubSeq(str, 1, Len(prefix)) = prefix

\* the loop over the lines of the output: the first line that is not
\* empty, not the header and starts with "polecat-"
RECURSIVE FirstBranchLine(_)
FirstBranchLine(lines) ==
    IF lines = <<>> THEN <<>>
    ELSE IF /\ Head(lines) # <<>>
            /\ Head(lines) # WordName
            /\ HasPrefix(Head(lines), WordPolecat)
    THEN Head(lines)
    ELSE FirstBranchLine(Tail(lines))

\* findDoltBranch(townRoot, rig, name); queryOk: dolt sql ran and exited
\* with status 0 within the 10 seconds
findDoltBranch(name) ==
    \E queryOk \in BOOLEAN :
        /\ fbEv' = [op |-> "findDoltBranch", polecat |-> name,
                    got |-> IF queryOk
                            THEN FirstBranchLine(SelectLatest(BranchPattern(name)))
                            ELSE <<>>,
                    err |-> ~queryOk]
        /\ UNCHANGED <<doltBranches, unixNow>>

\* CreatePolecatBranch for the polecat name under the name that
\* PolecatBranchName gives it now; dolt refuses a name that exists
CreateBranchFor(name) ==
    LET branch == PolecatBranchName(name, unixNow)
    IN  /\ Len(doltBranches) < MaxRows
        /\ \A i \in 1..Len(doltBranches) : doltBranches[i].name # branch
        /\ doltBranches' = Append(doltBranches, [name |-> branch, owner |-> name])
        /\ fbEv' = NoFbEv
        /\ UNCHANGED unixNow

\* a second passes
UnixTick ==
    /\ unixNow < Epoch + MaxTicks
    /\ unixNow' = unixNow + 1
    /\ fbEv' = NoFbEv
    /\ UNCHANGED doltBranches

(* --------------------- claims about findDoltBranch -------------------- *)

\* the rows of dolt_branches made for the polecat name, by position
RowsOf(name) == {i \in 1..Len(doltBranches) : doltBranches[i].owner = name}

\* C30: in the state in which a call of findDoltBranch for polecat P whose
\* query ran returns, the result is the name of the branch created last
\* among the branches created for P, and the empty string when no branch
\* was created for P; so it is never a branch created for another polecat.
C30_LatestBranchOfPolecat ==
    (fbEv.op = "findDoltBranch" /\ ~fbEv.err) =>
        LET mine == RowsOf(fbEv.polecat)
        IN  IF mine = {} THEN fbEv.got = <<>>
            ELSE fbEv.got =
                    doltBranches[CHOOSE i \in mine : \A j \in mine : j <= i].name

(* ====================================================================== *)
(* Part 12 (specification SpecCapacity): the resource monitoring of       *)
(* internal/doltserver/doltserver.go: GetActiveConnectionCount,           *)
(* HasConnectionCapacity and GetHealthMetrics, with the server's process  *)
(* list and the data directory they measure.                              *)
(* ====================================================================== *)

\* DefaultMaxConnections
DefaultMaxConnections == 50

\* the server holds at most MaxActive connections in one behaviour
MaxActive == 42

\* Config.MaxConnections: what DefaultConfig sets, and smaller limits
ConnLimits == {1, 2, 5, DefaultMaxConnections}

\* the round-trip times of SELECT 1, in milliseconds, and the size of the
\* data directory, in bytes
Latencies == {500, 1500}
DiskSizes == {0, 1536}

VARIABLES
    maxConnections,  \* config.MaxConnections
    processList,     \* the rows of information_schema.PROCESSLIST
    capEv            \* the monitoring call that returned in the last step

CapVars == <<maxConnections, processList, capEv>>

NoCapEv == [op |-> "none"]

CapIdle ==
    /\ maxConnections = DefaultMaxConnections
    /\ processList = 0
    /\ capEv = NoCapEv

CapInit ==
    /\ maxConnections \in ConnLimits
    /\ processList = 0
    /\ capEv = NoCapEv

\* maxConn of HasConnectionCapacity and metrics.MaxConnections of
\* GetHealthMetrics: the configured limit, Dolt's default when it is not set
DoltDefaultLimit == 1000
EffectiveLimit == IF maxConnections <= 0 THEN DoltDefaultLimit ELSE maxConnections

\* threshold of HasConnectionCapacity: (maxConn * 80) / 100, at least 1
Threshold_NoFloorOfOne(maxConn) == (maxConn * 80) \div 100
Threshold(maxConn) ==
    LET threshold == (maxConn * 80) \div 100
    IN  IF threshold < 1 THEN 1 ELSE threshold

\* GetActiveConnectionCount: queryOk says that dolt sql ran within its 10
\* seconds and printed the header and a count that parses
GetActiveConnectionCount(queryOk) ==
    IF queryOk THEN [count |-> processList, err |-> FALSE]
    ELSE [count |-> 0, err |-> TRUE]

HasConnectionCapacity ==
    \E queryOk \in BOOLEAN :
        LET res == GetActiveConnectionCount(queryOk)
        IN  /\ capEv' = [op |-> "HasConnectionCapacity",
                         measured |-> queryOk,
                         hasCapacity |-> IF res.err THEN TRUE
                                         ELSE res.count < Threshold(EffectiveLimit),
                         active |-> IF res.err THEN 0 ELSE res.count,
                         err |-> res.err]
            /\ UNCHANGED <<maxConnections, processList>>

\* formatBytes for sizes below one MB: the bytes, or the KB to one decimal
formatBytes(b) ==
    IF b >= 1024 THEN [whole |-> b \div 1024,
                       tenth |-> ((b % 1024) * 10) \div 1024,
                       unit |-> "KB"]
    ELSE [whole |-> b, tenth |-> 0, unit |-> "B"]

\* GetHealthMetrics: the latency, the connection count and the disk usage
\* are gathered one after the other; ConnectionPct is kept as the fraction
\* connCount * 100 / MaxConnections
GetHealthMetrics ==
    \E latencyOk, queryOk \in BOOLEAN, latency \in Latencies, diskBytes \in DiskSizes :
        LET res == GetActiveConnectionCount(queryOk)
            pct == [num |-> res.count * 100, den |-> EffectiveLimit]
            atLimit == ~res.err /\ pct.num >= 80 * pct.den
        IN  /\ capEv' = [op |-> "GetHealthMetrics",
                         in |-> [latencyOk |-> latencyOk, latency |-> latency,
                                 measured |-> queryOk, diskBytes |-> diskBytes],
                         Connections |-> IF res.err THEN 0 ELSE res.count,
                         MaxConnections |-> EffectiveLimit,
                         ConnectionPct |-> IF res.err THEN [num |-> 0, den |-> 1] ELSE pct,
                         DiskUsageBytes |-> diskBytes,
                         DiskUsageHuman |-> formatBytes(diskBytes),
                         QueryLatency |-> IF latencyOk THEN latency ELSE 0,
                         Healthy |-> ~atLimit,
                         Warnings |-> (IF latencyOk /\ latency > 1000
                                       THEN {"latency"} ELSE {})
                                      \cup (IF atLimit THEN {"connections"} ELSE {})]
            /\ UNCHANGED <<maxConnections, processList>>

\* clients connect to the server and disconnect
ProcessListChange ==
    /\ \E n \in 0..MaxActive : n # processList /\ processList' = n
    /\ capEv' = NoCapEv
    /\ UNCHANGED maxConnections

(* ------------------- claims about the resource monitoring ------------- *)

\* C33: in the state in which GetHealthMetrics returns, healthy is false
\* exactly when the connection count could not be obtained or is at least
\* 80% of the maximum; and each metric that was gathered is reported with
\* the value measured, whichever of the other metrics failed: the latency,
\* the connection count, and the disk usage.
C33_HealthyBitAndIndependence ==
    capEv.op = "GetHealthMetrics" =>
        /\ capEv.Healthy <=>
              (capEv.in.measured /\ processList * 100 < 80 * capEv.MaxConnections)
        /\ capEv.in.latencyOk => capEv.QueryLatency = capEv.in.latency
        /\ capEv.in.measured => capEv.Connections = processList
        /\ capEv.DiskUsageBytes = capEv.in.diskBytes

\* floor(0.80 * n)
FourFifths(n) == (4 * n) \div 5

\* C34: in the state in which HasConnectionCapacity returns, when the
\* connection count was measured it is returned without an error together
\* with hasCapacity = (active < max(1, floor(0.80 * max_connections))), and
\* when it was not measured hasCapacity is true and the error is returned.
C34_CapacityThreshold ==
    capEv.op = "HasConnectionCapacity" =>
        IF capEv.measured
        THEN /\ ~capEv.err
             /\ capEv.active = processList
             /\ capEv.hasCapacity <=>
                   LET floor == FourFifths(maxConnections)
                   IN  capEv.active < (IF floor > 1 THEN floor ELSE 1)
        ELSE capEv.hasCapacity /\ capEv.err

\* C34 witness: with a limit of one connection, where 80% rounds down to
\* zero, a call that measured no connection returned that there is capacity;
\* or a call that could not measure returned capacity with the error
C34_Witness ==
    /\ capEv.op = "HasConnectionCapacity"
    /\ \/ capEv.measured /\ maxConnections = 1 /\ capEv.active = 0 /\ capEv.hasCapacity
       \/ ~capEv.measured /\ capEv.hasCapacity /\ capEv.err /\ processList >= 40

(* ====================================================================== *)
(* Part 13 (specification SpecLockCleanup): the loop of Start over the    *)
(* databases that calls cleanupStaleDoltLock of                           *)
(* internal/doltserver/doltserver.go, step by step, with the processes    *)
(* (bd in embedded mode) that open and hold a database's .dolt/noms/LOCK. *)
(* ====================================================================== *)

\* the databases ListDatabases returned to Start, in the order of the loop
CleanupDbs == <<"hq", "r1">>

\* the processes other than the supervisor that open a database
LockUsers == {"bd1", "bd2"}

VARIABLES
    nomsLock,   \* per database: whether .dolt/noms/LOCK exists, and the
                \* processes that hold it open
    clPc,       \* where the Start is in the loop: "idle", "stat", "probe",
                \* "remove", or "done" (past the loop, at the log file)
    clDb,       \* the position in CleanupDbs of the database being cleaned
    clEv        \* the call of cleanupStaleDoltLock that returned in the last step

CleanVars == <<nomsLock, clPc, clDb, clEv>>

NoClEv == [op |-> "none", db |-> "", probe |-> "none", removed |-> FALSE, warned |-> FALSE]

CleanIdle ==
    /\ nomsLock = [d \in {CleanupDbs[i] : i \in 1..Len(CleanupDbs)} |->
                      [exists |-> FALSE, holders |-> {}]]
    /\ clPc = "idle"
    /\ clDb = 1
    /\ clEv = NoClEv

\* cleanupStaleDoltLock returns to the loop of Start: a warning is printed
\* when it returned an error, and the loop goes on to the next database or,
\* after the last, to the opening of the log file
CleanupReturn(probe, removed, warned) ==
    /\ clEv' = [op |-> "cleanupStaleDoltLock", db |-> CleanupDbs[clDb],
                probe |-> probe, removed |-> removed, warned |-> warned]
    /\ IF clDb < Len(CleanupDbs)
       THEN clDb' = clDb + 1 /\ clPc' = "stat"
       ELSE clDb' = 1 /\ clPc' = "done"

\* Start reaches the loop over the databases
CleanupBegin ==
    /\ clPc \in {"idle", "done"}
    /\ clPc' = "stat"
    /\ clDb' = 1
    /\ clEv' = NoClEv
    /\ UNCHANGED nomsLock

\* os.Stat(lockPath): no lock file, nothing to clean
CleanupStat ==
    /\ clPc = "stat"
    /\ IF ~nomsLock[CleanupDbs[clDb]].exists
       THEN CleanupReturn("none", FALSE, FALSE)
       ELSE clPc' = "probe" /\ clEv' = NoClEv /\ UNCHANGED clDb
    /\ UNCHANGED nomsLock

\* what lsof lockPath reports: exit code 0 and the holders when some process
\* has the file open, exit code 1 when none has; or it could not be run or
\* ended in another way
LsofOutcomes(lock) ==
    {IF lock.holders # {} THEN "exit0" ELSE "exit1", "other"}

\* exec.Command("lsof", lockPath).Output(): only exit code 1 leads to the
\* removal
CleanupProbe ==
    /\ clPc = "probe"
    /\ \E probe \in LsofOutcomes(nomsLock[CleanupDbs[clDb]]) :
          IF probe = "exit1"
          THEN clPc' = "remove" /\ clEv' = NoClEv /\ UNCHANGED clDb
          ELSE CleanupReturn(probe, FALSE, FALSE)
    /\ UNCHANGED nomsLock

\* os.Remove(lockPath): its failure is the error the loop prints as a warning
CleanupRemove ==
    /\ clPc = "remove"
    /\ \E removeOk \in BOOLEAN :
          LET d == CleanupDbs[clDb]
          IN  IF removeOk /\ nomsLock[d].exists
              THEN /\ nomsLock' = [nomsLock EXCEPT ![d].exists = FALSE]
                   /\ CleanupReturn("exit1", TRUE, FALSE)
              ELSE /\ UNCHANGED nomsLock
                   /\ CleanupReturn("exit1", FALSE, TRUE)

\* a process opens the database: it creates the lock file when there is
\* none and holds it
LockOpen(u, d) ==
    /\ u \notin nomsLock[d].holders
    /\ nomsLock[d].holders = {} \/ ~nomsLock[d].exists
    /\ nomsLock' = [nomsLock EXCEPT ![d] = [exists |-> TRUE, holders |-> {u}]]
    /\ clEv' = NoClEv
    /\ UNCHANGED <<clPc, clDb>>

\* the process closes the database and removes the lock file, or crashes
\* and leaves it behind
LockClose(u, d) ==
    /\ u \in nomsLock[d].holders
    /\ \E crashed \in BOOLEAN :
          nomsLock' = [nomsLock EXCEPT ![d] =
                          [exists |-> IF crashed THEN @.exists ELSE FALSE,
                           holders |-> @.holders \ {u}]]
    /\ clEv' = NoClEv
    /\ UNCHANGED <<clPc, clDb>>

(* ------------------- claims about cleanupStaleDoltLock ---------------- *)

\* C35: a step of cleanupStaleDoltLock removes a database's lock file only
\* when the file existed, the probe of that call reported exit code 1, and
\* no process holds the file; a call whose probe found a holder or ended in
\* another way returns without having touched the lock files; and every
\* return of cleanupStaleDoltLock leaves Start in the loop or past it.
C35_RemovesOnlyUnheldLock ==
    /\ [][/\ (clEv'.op = "cleanupStaleDoltLock" /\ clEv'.removed) =>
                  /\ nomsLock[clEv'.db].exists
                  /\ clEv'.probe = "exit1"
                  /\ nomsLock[clEv'.db].holders = {}
          /\ (clEv'.op = "cleanupStaleDoltLock" /\ clEv'.probe \in {"exit0", "other"}) =>
                  nomsLock' = nomsLock]_CleanVars
    /\ [](clEv.op = "cleanupStaleDoltLock" => clPc \in {"stat", "done"})

(* ====================================================================== *)
(* Part 14 (specifications SpecWatch and SpecWatchFair): runPatrolStepDrift *)
(* of internal/cmd/patrol_step_drift.go: the single run and the watch     *)
(* loop, with the context that signal.NotifyContext cancels on an         *)
(* interrupt or terminate signal and the timer of each wait.              *)
(* ====================================================================== *)

\* the watch loop runs at most MaxWatchChecks checks in one behaviour
MaxWatchChecks == 2

\* the refresh interval in seconds when no usable argument is given
DefaultInterval == 30

\* the positional arguments of the command: none, or one string
WatchArgs == {<<>>, <<<<"2">>>>, <<<<"0">>>>, <<<<"x">>>>, <<<<"-", "3">>>>, <<<<"2", "s">>>>}

\* strconv.Atoi: an optional sign and then decimal digits only
Atoi(s) ==
    LET signed == s # <<>> /\ Head(s) \in {"+", "-"}
        body == IF signed THEN Tail(s) ELSE s
    IN  IF body = <<>> \/ DigitRun(body) # Len(body)
        THEN [v |-> 0, err |-> TRUE]
        ELSE [v |-> IF signed /\ Head(s) = "-" THEN 0 - DecimalValue(body)
                    ELSE DecimalValue(body),
              err |-> FALSE]

\* interval of runPatrolStepDrift
IntervalOf(args) ==
    IF Len(args) > 0 /\ ~Atoi(args[1]).err /\ Atoi(args[1]).v > 0
    THEN Atoi(args[1]).v
    ELSE DefaultInterval

VARIABLES
    flags,      \* stepDriftWatch, stepDriftAgent and stepDriftNudge
    interval,   \* the refresh interval in seconds
    watchPc,    \* "check": about to run the check; "wait": in the select;
                \* "returned": the command returned; "killed": the process
                \* was ended by a signal it does not handle
    ctxDone,    \* the context of signal.NotifyContext is cancelled
    waited,     \* the seconds since the select was entered
    checks,     \* the number of checks run
    shown,      \* the results rendered or encoded by the last check
    watchErr    \* the error the command returned

WatchVars == <<flags, interval, watchPc, ctxDone, waited, checks, shown, watchErr>>

WatchIdle ==
    /\ flags = [watch |-> FALSE, agent |-> FALSE, nudge |-> FALSE]
    /\ interval = DefaultInterval
    /\ watchPc = "returned"
    /\ ctxDone = FALSE
    /\ waited = 0
    /\ checks = 0
    /\ shown = <<>>
    /\ watchErr = FALSE

\* the command is started with its flags and arguments
WatchInit ==
    /\ flags \in [watch : BOOLEAN, agent : BOOLEAN, nudge : BOOLEAN]
    /\ \E args \in WatchArgs : interval = IntervalOf(args)
    /\ watchPc = "check"
    /\ ctxDone = FALSE
    /\ waited = 0
    /\ checks = 0
    /\ shown = <<>>
    /\ watchErr = FALSE

\* nudgeDrifting(results) when --nudge is given: every drifting polecat is
\* nudged and marked
Nudge(results) ==
    [i \in DOMAIN results |->
        [results[i] EXCEPT !.Nudged = flags.nudge /\ results[i].Drifting]]

\* one pass of the watch loop up to the select: the check, the nudges and
\* the rendering
WatchCheck ==
    /\ flags.watch /\ watchPc = "check"
    /\ checks < MaxWatchChecks
    /\ checkStepDrift(DefaultThreshold)
    /\ shown' = Nudge(driftEv'.results)
    /\ checks' = checks + 1
    /\ watchPc' = "wait"
    /\ waited' = 0
    /\ UNCHANGED <<flags, interval, ctxDone, watchErr>>

\* a second passes while the select waits for the timer
WatchSecond ==
    /\ watchPc = "wait" /\ ~ctxDone
    /\ waited < interval
    /\ waited' = waited + 1
    /\ UNCHANGED <<flags, interval, watchPc, ctxDone, checks, shown, watchErr, DriftVars>>

\* case <-time.After(interval seconds): the loop goes round. A select that
\* is blocked proceeds with the case that becomes ready first, so the timer
\* case is taken only while the context is not cancelled
WatchTimer_IgnoresDone ==
    /\ watchPc = "wait"
    /\ waited = interval
    /\ checks < MaxWatchChecks
    /\ watchPc' = "check"
    /\ waited' = 0
    /\ UNCHANGED <<flags, interval, ctxDone, checks, shown, watchErr, DriftVars>>
WatchTimer ==
    /\ watchPc = "wait" /\ ~ctxDone
    /\ waited = interval
    /\ checks < MaxWatchChecks
    /\ watchPc' = "check"
    /\ waited' = 0
    /\ UNCHANGED <<flags, interval, ctxDone, checks, shown, watchErr, DriftVars>>

\* case <-ctx.Done(): return nil
WatchDone ==
    /\ watchPc = "wait" /\ ctxDone
    /\ watchPc' = "returned"
    /\ watchErr' = FALSE
    /\ UNCHANGED <<flags, interval, ctxDone, waited, checks, shown, DriftVars>>

\* without --watch: one check, then the JSON report (whose encoding may
\* fail) or the display
RunOnce ==
    /\ ~flags.watch /\ watchPc = "check"
    /\ checkStepDrift(DefaultThreshold)
    /\ shown' = Nudge(driftEv'.results)
    /\ checks' = checks + 1
    /\ watchPc' = "returned"
    /\ \E encodeOk \in BOOLEAN : watchErr' = (flags.agent /\ ~encodeOk)
    /\ UNCHANGED <<flags, interval, ctxDone, waited>>

\* an interrupt or terminate signal: in watch mode it cancels the context,
\* otherwise it ends the process
WatchSignal ==
    /\ watchPc \in {"check", "wait"}
    /\ ~ctxDone
    /\ IF flags.watch
       THEN ctxDone' = TRUE /\ UNCHANGED watchPc
       ELSE watchPc' = "killed" /\ UNCHANGED ctxDone
    /\ UNCHANGED <<flags, interval, waited, checks, shown, watchErr, DriftVars>>

(* ------------------------ claims about the watch loop ----------------- *)

\* C36: in watch mode the loop starts a further pass only when the select
\* has waited the whole interval and the signal has not cancelled the
\* context; the command returns only after the signal, with no error; and
\* once the signal has cancelled the context the command returns.
C36_WatchStopsOnSignal ==
    /\ [][(flags.watch /\ watchPc # "check" /\ watchPc' = "check") =>
             (watchPc = "wait" /\ waited = interval /\ ~ctxDone)
         ]_<<WatchVars, DriftVars>>
    /\ []((flags.watch /\ watchPc = "returned") => (ctxDone /\ ~watchErr))
    /\ ((flags.watch /\ ctxDone) ~> (watchPc = "returned" /\ ~watchErr))

\* C36 witness: the watch loop ran a second check after a full interval and
\* returned after a signal
C36_Witness ==
    /\ flags.watch
    /\ checks = 2
    /\ ctxDone
    /\ watchPc = "returned"
    /\ ~watchErr

(* ====================================================================== *)
(* Part 15 (specification SpecCount): countClosedSteps and matchStep of   *)
(* internal/cmd/patrol_step_drift.go applied to status maps of any shape. *)
(* ====================================================================== *)

\* step titles as bd show may print them: titles that extend a canonical
\* name, in other case, and a title that holds no canonical name
CountTitles == {
    <<"I", "m", "p", "l", "e", "m", "e", "n", "t">>,
    <<"I", "M", "P", "L", "E", "M", "E", "N", "T", " ", "f", "i", "x">>,
    <<"R", "u", "n", " ", "t", "e", "s", "t", "s">>,
    <<"l", "o", "a", "d", " ", "c", "o", "n", "t", "e", "x", "t", " ", "f", "i", "r", "s", "t">>,
    <<"D", "e", "p", "l", "o", "y">> }

\* the maps title -> closed over these titles; the map without keys stands
\* for the nil map and the empty map alike
StatusMaps == UNION {[keys -> BOOLEAN] : keys \in SUBSET CountTitles}

VARIABLES
    statusMap,  \* the statuses handed to countClosedSteps
    countEv     \* the call of countClosedSteps that returned in the last step

CountVars == <<statusMap, countEv>>

NoCountEv == [op |-> "none", got |-> 0]

CountIdle ==
    /\ statusMap = <<>>
    /\ countEv = NoCountEv

CountInit ==
    /\ statusMap \in StatusMaps
    /\ countEv = NoCountEv

\* a call of countClosedSteps(statusMap) returns
CountSteps ==
    /\ \E got \in countClosedSteps(statusMap) :
          countEv' = [op |-> "countClosedSteps", got |-> got]
    /\ UNCHANGED statusMap

\* the caller goes on to other work between two calls
CountForget ==
    /\ countEv # NoCountEv
    /\ countEv' = NoCountEv
    /\ UNCHANGED statusMap

(* ----------------------- claims about countClosedSteps ---------------- *)

\* the canonical step names for which an entry whose title contains the
\* name, in any case, is closed
ClosedNames(statuses) ==
    {n \in 1..Len(stepsOrder) :
        \E key \in DOMAIN statuses :
            /\ Contains(ToLower(key), ToLower(stepsOrder[n]))
            /\ statuses[key]}

\* C37: countClosedSteps returns the number of canonical step names for
\* which the entry whose title contains the name, in any case, is closed;
\* that is 0 for the map without keys and never more than nine; and two
\* calls on the same map return the same count.
C37_CountOfClosedSteps ==
    /\ [](countEv.op = "countClosedSteps" =>
            /\ countEv.got = Cardinality(ClosedNames(statusMap))
            /\ countEv.got <= Len(stepsOrder)
            /\ DOMAIN statusMap = {} => countEv.got = 0)
    /\ [][(countEv.op = "countClosedSteps" /\ countEv'.op = "countClosedSteps") =>
             countEv'.got = countEv.got]_CountVars

(* ====================================================================== *)
(* Part 16 (specification SpecSessionNames): the session names of package *)
(* session for every kind of agent, compared for two agents of a town.    *)
(* ====================================================================== *)

\* rig names (InitRig accepts letters, digits, _ and -) and worker names
SessionRigs == {<<"a">>, <<"a", "-", "b">>}
WorkerNames == {<<"c">>, <<"b", "-", "c">>,
                <<"w", "i", "t", "n", "e", "s", "s">>,
                <<"c", "r", "e", "w", "-", "c">>}

\* the agents of a town: the mayor and the deacon, a witness and a refinery
\* per rig, and the crew workers and polecats of each rig
TownAgents ==
    {[role |-> r, rig |-> <<>>, name |-> <<>>] : r \in {"mayor", "deacon"}}
    \cup {[role |-> r, rig |-> g, name |-> <<>>] :
             r \in {"witness", "refinery"}, g \in SessionRigs}
    \cup {[role |-> r, rig |-> g, name |-> n] :
             r \in {"crew", "polecat"}, g \in SessionRigs, n \in WorkerNames}

MayorSessionName == Prefix \o <<"m", "a", "y", "o", "r">>
DeaconSessionName == Prefix \o <<"d", "e", "a", "c", "o", "n">>
WitnessSessionName(rig) == Prefix \o rig \o <<"-", "w", "i", "t", "n", "e", "s", "s">>
RefinerySessionName(rig) ==
    Prefix \o rig \o <<"-", "r", "e", "f", "i", "n", "e", "r", "y">>

\* the session name of an agent
SessionNameOf(agent) ==
    CASE agent.role = "mayor" -> MayorSessionName
      [] agent.role = "deacon" -> DeaconSessionName
      [] agent.role = "witness" -> WitnessSessionName(agent.rig)
      [] agent.role = "refinery" -> RefinerySessionName(agent.rig)
      [] agent.role = "crew" -> CrewSessionName(agent.rig, agent.name)
      [] agent.role = "polecat" -> PolecatSessionName(agent.rig, agent.name)

VARIABLES
    agentPair,  \* two agents of the town
    nameEv      \* the session names computed for them in the last step

NameVars == <<agentPair, nameEv>>

NoNameEv == [op |-> "none", left |-> <<>>, right |-> <<>>]

NameIdle ==
    /\ agentPair = <<[role |-> "mayor", rig |-> <<>>, name |-> <<>>],
                     [role |-> "mayor", rig |-> <<>>, name |-> <<>>]>>
    /\ nameEv = NoNameEv

NameInit ==
    /\ agentPair \in TownAgents \X TownAgents
    /\ nameEv = NoNameEv

\* the session names of the two agents are computed
SessionNames ==
    /\ nameEv' = [op |-> "names", left |-> SessionNameOf(agentPair[1]),
                  right |-> SessionNameOf(agentPair[2])]
    /\ UNCHANGED agentPair

(* ------------------------ claims about session names ------------------ *)

\* C40: the session names computed for two agents that differ in role, rig
\* or worker name are different; so the session gt-<rig>-<name> of a
\* polecat is the session of no other agent.
C40_SessionNamesDistinct ==
    (nameEv.op = "names" /\ agentPair[1] # agentPair[2]) =>
        nameEv.left # nameEv.right

(* ====================================================================== *)
(*                             Specifications                             *)
(* ====================================================================== *)

\* the variables of parts 5 and later, and their state when nothing of
\* these parts has happened
LaterVars == <<HealthVars, DriftVars, CrewVars, VersionVars, TierVars, DoctorVars, FindVars, CapVars, CleanVars, WatchVars, CountVars, NameVars>>
LaterIdle == HealthIdle /\ DriftIdle /\ CrewIdle /\ VersionIdle /\ TierIdle /\ DoctorIdle /\ FindIdle /\ CapIdle /\ CleanIdle /\ WatchIdle /\ CountIdle /\ NameIdle

vars == <<SrvVars, BrVars, RigVars, RaceVars, LaterVars>>

\* the supervisor with nothing started and no call in progress
SrvIdle == SrvInit /\ dataDbs = {}

Init == SrvInit /\ BrInit /\ RigIdle /\ RaceIdle /\ LaterIdle

Next ==
    \/ (\E p \in Procs : StartLock(p)) /\ UNCHANGED <<BrVars, RigVars, RaceVars, LaterVars>>
    \/ (\E p \in Procs : StartSpawn(p)) /\ UNCHANGED <<BrVars, RigVars, RaceVars, LaterVars>>
    \/ (\E p \in Procs : StartWritePid(p)) /\ UNCHANGED <<BrVars, RigVars, RaceVars, LaterVars>>
    \/ (\E p \in Procs : StartSaveState(p)) /\ UNCHANGED <<BrVars, RigVars, RaceVars, LaterVars>>
    \/ (\E p \in Procs : StopBegin(p)) /\ UNCHANGED <<BrVars, RigVars, RaceVars, LaterVars>>
    \/ (\E p \in Procs : StopTerm(p)) /\ UNCHANGED <<BrVars, RigVars, RaceVars, LaterVars>>
    \/ (\E p \in Procs : StopKill(p)) /\ UNCHANGED <<BrVars, RigVars, RaceVars, LaterVars>>
    \/ (\E p \in Procs : StopRemovePid(p)) /\ UNCHANGED <<BrVars, RigVars, RaceVars, LaterVars>>
    \/ (\E p \in Procs : StopSaveState(p)) /\ UNCHANGED <<BrVars, RigVars, RaceVars, LaterVars>>
    \/ (\E p \in Procs : Status(p)) /\ UNCHANGED <<BrVars, RigVars, RaceVars, LaterVars>>
    \/ (\E p \in Procs : IRRead(p)) /\ UNCHANGED <<BrVars, RigVars, RaceVars, LaterVars>>
    \/ (\E p \in Procs : IRRemove(p)) /\ UNCHANGED <<BrVars, RigVars, RaceVars, LaterVars>>
    \/ (\E p \in Procs : IRScan(p)) /\ UNCHANGED <<BrVars, RigVars, RaceVars, LaterVars>>
    \/ ExtStart /\ UNCHANGED <<BrVars, RigVars, RaceVars, LaterVars>>
    \/ (\E c \in Pids : OtherStart(c)) /\ UNCHANGED <<BrVars, RigVars, RaceVars, LaterVars>>
    \/ (\E c \in Pids : ChildBind(c)) /\ UNCHANGED <<BrVars, RigVars, RaceVars, LaterVars>>
    \/ (\E c \in Pids : Die(c)) /\ UNCHANGED <<BrVars, RigVars, RaceVars, LaterVars>>

Spec == Init /\ [][Next]_vars

InitBranch == SrvIdle /\ BrInit /\ RigIdle /\ RaceIdle /\ LaterIdle

NextBranch ==
    \/ (\E d \in RigDBs, b \in Names : CreatePolecatBranch(d, b)) /\ UNCHANGED <<SrvVars, RigVars, RaceVars, LaterVars>>
    \/ (\E d \in RigDBs, b \in Names : MergePolecatBranch(d, b)) /\ UNCHANGED <<SrvVars, RigVars, RaceVars, LaterVars>>
    \/ (\E d \in RigDBs, b \in Names : DeletePolecatBranch(d, b)) /\ UNCHANGED <<SrvVars, RigVars, RaceVars, LaterVars>>
    \/ (\E b \in Names : PolecatWrite(b)) /\ UNCHANGED <<SrvVars, RigVars, RaceVars, LaterVars>>

SpecBranch == InitBranch /\ [][NextBranch]_vars

\* calls of IsRunning, with servers dying, binding the port and pids being
\* reused between the calls
InitIsRunning == IsRunningInit /\ BrInit /\ RigIdle /\ RaceIdle /\ LaterIdle

NextIsRunning ==
    \/ (\E p \in Procs : Status(p)) /\ UNCHANGED <<BrVars, RigVars, RaceVars, LaterVars>>
    \/ (\E p \in Procs : IRRead(p)) /\ UNCHANGED <<BrVars, RigVars, RaceVars, LaterVars>>
    \/ (\E p \in Procs : IRRemove(p)) /\ UNCHANGED <<BrVars, RigVars, RaceVars, LaterVars>>
    \/ (\E p \in Procs : IRScan(p)) /\ UNCHANGED <<BrVars, RigVars, RaceVars, LaterVars>>
    \/ (Quiet /\ \E c \in Pids : OtherStart(c)) /\ UNCHANGED <<BrVars, RigVars, RaceVars, LaterVars>>
    \/ (Quiet /\ \E c \in Pids : ChildBind(c)) /\ UNCHANGED <<BrVars, RigVars, RaceVars, LaterVars>>
    \/ (Quiet /\ \E c \in Pids : Die(c)) /\ UNCHANGED <<BrVars, RigVars, RaceVars, LaterVars>>

SpecIsRunning == InitIsRunning /\ [][NextIsRunning]_vars

\* the supervisor's variables the data plane leaves alone
SrvRest == <<kind, nextPid, listener, stateFile, lockHolder, pc, ret, spawned,
             target, ev, startLog>>

InitMeta == SrvQuiet /\ dataDbs \in SUBSET Rigs /\ BrInit /\ MetaInit /\ RaceIdle /\ LaterIdle

NextMeta ==
    \/ (\E r \in RigArgs : InitRig(r)) /\ UNCHANGED <<SrvRest, BrVars, RaceVars, LaterVars>>
    \/ (\E r \in Rigs : EnsureMetadata(r)) /\ UNCHANGED <<SrvRest, BrVars, RaceVars, LaterVars>>
    \/ EnsureAllMetadata /\ UNCHANGED <<SrvRest, BrVars, RaceVars, LaterVars>>

SpecMeta == InitMeta /\ [][NextMeta]_vars

InitRigs == SrvQuiet /\ dataDbs \in SUBSET Rigs /\ BrInit /\ RigInit /\ RaceIdle /\ LaterIdle

NextRig ==
    \/ (\E r \in RigArgs : InitRig(r)) /\ UNCHANGED <<SrvRest, BrVars, RaceVars, LaterVars>>
    \/ FindMigratableDatabases /\ UNCHANGED <<SrvRest, BrVars, RaceVars, LaterVars>>
    \/ (\E r \in Rigs, st \in Stores : MigrateRigFromBeads(r, st)) /\ UNCHANGED <<SrvRest, BrVars, RaceVars, LaterVars>>
    \/ (\E r \in Rigs : EnsureMetadata(r)) /\ UNCHANGED <<SrvRest, BrVars, RaceVars, LaterVars>>
    \/ EnsureAllMetadata /\ UNCHANGED <<SrvRest, BrVars, RaceVars, LaterVars>>

SpecRig == InitRigs /\ [][NextRig]_vars

\* what the writers of the metadata file leave alone
RaceRest == <<SrvVars, BrVars, legacy, redirects, rigEv, LaterVars>>

InitRace == SrvQuiet /\ dataDbs = {HQ} /\ BrInit /\ RaceInit /\ LaterIdle

NextRace ==
    \/ (\E w \in Reconcilers : EMLock(w)) /\ UNCHANGED RaceRest
    \/ (\E w \in Reconcilers : EMRead(w)) /\ UNCHANGED RaceRest
    \/ (\E w \in Reconcilers : EMWrite(w)) /\ UNCHANGED RaceRest
    \/ (\E w \in Doctors : DocRun(w)) /\ UNCHANGED RaceRest
    \/ (\E w \in Doctors : DocRead(w)) /\ UNCHANGED RaceRest
    \/ (\E w \in Doctors : DocOpen(w)) /\ UNCHANGED RaceRest
    \/ (\E w \in Doctors : DocWrite(w)) /\ UNCHANGED RaceRest

SpecRace == InitRace /\ [][NextRace]_vars

\* parts 1 to 4 with nothing started
EarlierVars == <<SrvVars, BrVars, RigVars, RaceVars>>
EarlierIdle == SrvIdle /\ BrInit /\ RigIdle /\ RaceIdle

InitHealth == EarlierIdle /\ HealthInit /\ DriftIdle /\ CrewIdle /\ VersionIdle /\ TierIdle /\ DoctorIdle /\ FindIdle /\ CapIdle /\ CleanIdle /\ WatchIdle /\ CountIdle /\ NameIdle

NextHealth ==
    \/ HBRead /\ UNCHANGED <<EarlierVars, DriftVars, CrewVars, VersionVars, TierVars, DoctorVars, FindVars, CapVars, CleanVars, WatchVars, CountVars, NameVars>>
    \/ HBProbe(PolecatRig, PolecatName) /\ UNCHANGED <<EarlierVars, DriftVars, CrewVars, VersionVars, TierVars, DoctorVars, FindVars, CapVars, CleanVars, WatchVars, CountVars, NameVars>>
    \/ Tick /\ UNCHANGED <<EarlierVars, DriftVars, CrewVars, VersionVars, TierVars, DoctorVars, FindVars, CapVars, CleanVars, WatchVars, CountVars, NameVars>>
    \/ (\E state \in AgentStates : UpdateAgentState(state)) /\ UNCHANGED <<EarlierVars, DriftVars, CrewVars, VersionVars, TierVars, DoctorVars, FindVars, CapVars, CleanVars, WatchVars, CountVars, NameVars>>
    \/ (\E name \in sessions : SessionEnd(name)) /\ UNCHANGED <<EarlierVars, DriftVars, CrewVars, VersionVars, TierVars, DoctorVars, FindVars, CapVars, CleanVars, WatchVars, CountVars, NameVars>>

SpecHealth == InitHealth /\ [][NextHealth]_vars

InitSpawn == EarlierIdle /\ HealthIdle /\ DriftIdle /\ CrewIdle /\ VersionIdle /\ TierIdle /\ DoctorIdle /\ FindIdle /\ CapIdle /\ CleanIdle /\ WatchIdle /\ CountIdle /\ NameIdle

NextSpawn ==
    \/ SlingCreateBead /\ UNCHANGED <<EarlierVars, DriftVars, CrewVars, VersionVars, TierVars, DoctorVars, FindVars, CapVars, CleanVars, WatchVars, CountVars, NameVars>>
    \/ SlingStartSession(PolecatRig, PolecatName) /\ UNCHANGED <<EarlierVars, DriftVars, CrewVars, VersionVars, TierVars, DoctorVars, FindVars, CapVars, CleanVars, WatchVars, CountVars, NameVars>>
    \/ SlingSetWorking /\ UNCHANGED <<EarlierVars, DriftVars, CrewVars, VersionVars, TierVars, DoctorVars, FindVars, CapVars, CleanVars, WatchVars, CountVars, NameVars>>
    \/ HBRead /\ UNCHANGED <<EarlierVars, DriftVars, CrewVars, VersionVars, TierVars, DoctorVars, FindVars, CapVars, CleanVars, WatchVars, CountVars, NameVars>>
    \/ HBProbe(PolecatRig, PolecatName) /\ UNCHANGED <<EarlierVars, DriftVars, CrewVars, VersionVars, TierVars, DoctorVars, FindVars, CapVars, CleanVars, WatchVars, CountVars, NameVars>>
    \/ Tick /\ UNCHANGED <<EarlierVars, DriftVars, CrewVars, VersionVars, TierVars, DoctorVars, FindVars, CapVars, CleanVars, WatchVars, CountVars, NameVars>>

SpecSpawn == InitSpawn /\ [][NextSpawn]_vars

InitDrift == EarlierIdle /\ HealthIdle /\ DriftInit /\ CrewIdle /\ VersionIdle /\ TierIdle /\ DoctorIdle /\ FindIdle /\ CapIdle /\ CleanIdle /\ WatchIdle /\ CountIdle /\ NameIdle

NextDrift ==
    \/ (\E t \in Thresholds : checkStepDrift(t)) /\ UNCHANGED <<EarlierVars, HealthVars, CrewVars, VersionVars, TierVars, DoctorVars, FindVars, CapVars, CleanVars, WatchVars, CountVars, NameVars>>
    \/ PolecatCloseStep /\ UNCHANGED <<EarlierVars, HealthVars, CrewVars, VersionVars, TierVars, DoctorVars, FindVars, CapVars, CleanVars, WatchVars, CountVars, NameVars>>
    \/ SessionAges /\ UNCHANGED <<EarlierVars, HealthVars, CrewVars, VersionVars, TierVars, DoctorVars, FindVars, CapVars, CleanVars, WatchVars, CountVars, NameVars>>

SpecDrift == InitDrift /\ [][NextDrift]_vars

InitCrew == EarlierIdle /\ HealthIdle /\ DriftIdle /\ CrewInit /\ VersionIdle /\ TierIdle /\ DoctorIdle /\ FindIdle /\ CapIdle /\ CleanIdle /\ WatchIdle /\ CountIdle /\ NameIdle

NextCrew ==
    \/ (\E name \in CrewNames, createBranch \in BOOLEAN : Add(name, createBranch))
          /\ UNCHANGED <<EarlierVars, HealthVars, DriftVars, VersionVars, TierVars, DoctorVars, FindVars, CapVars, CleanVars, WatchVars, CountVars, NameVars>>
    \/ (\E name \in CrewNames, force \in BOOLEAN : Remove(name, force))
          /\ UNCHANGED <<EarlierVars, HealthVars, DriftVars, VersionVars, TierVars, DoctorVars, FindVars, CapVars, CleanVars, WatchVars, CountVars, NameVars>>
    \/ (\E name \in CrewNames : WorkerEdits(name))
          /\ UNCHANGED <<EarlierVars, HealthVars, DriftVars, VersionVars, TierVars, DoctorVars, FindVars, CapVars, CleanVars, WatchVars, CountVars, NameVars>>

SpecCrew == InitCrew /\ [][NextCrew]_vars

\* workers that Add left are renamed, and edit their working trees
InitRename == EarlierIdle /\ HealthIdle /\ DriftIdle /\ RenameInit /\ VersionIdle /\ TierIdle /\ DoctorIdle /\ FindIdle /\ CapIdle /\ CleanIdle /\ WatchIdle /\ CountIdle /\ NameIdle

NextRename ==
    \/ (\E oldName, newName \in CrewNames : Rename(oldName, newName))
          /\ UNCHANGED <<EarlierVars, HealthVars, DriftVars, VersionVars, TierVars, DoctorVars, FindVars, CapVars, CleanVars, WatchVars, CountVars, NameVars>>
    \/ (\E name \in CrewNames : WorkerEdits(name))
          /\ UNCHANGED <<EarlierVars, HealthVars, DriftVars, VersionVars, TierVars, DoctorVars, FindVars, CapVars, CleanVars, WatchVars, CountVars, NameVars>>

SpecRename == InitRename /\ [][NextRename]_vars

InitVersion == EarlierIdle /\ HealthIdle /\ DriftIdle /\ CrewIdle /\ VersionInit /\ TierIdle /\ DoctorIdle /\ FindIdle /\ CapIdle /\ CleanIdle /\ WatchIdle /\ CountIdle /\ NameIdle

NextVersion ==
    \/ CheckVersion /\ UNCHANGED <<EarlierVars, HealthVars, DriftVars, CrewVars, TierVars, DoctorVars, FindVars, CapVars, CleanVars, WatchVars, CountVars, NameVars>>

SpecVersion == InitVersion /\ [][NextVersion]_vars

InitTier == EarlierIdle /\ HealthIdle /\ DriftIdle /\ CrewIdle /\ VersionIdle /\ TierInit /\ DoctorIdle /\ FindIdle /\ CapIdle /\ CleanIdle /\ WatchIdle /\ CountIdle /\ NameIdle

NextTier ==
    \/ (\E tier \in TierArgs : ApplyTier(tier))
          /\ UNCHANGED <<EarlierVars, HealthVars, DriftVars, CrewVars, VersionVars, DoctorVars, FindVars, CapVars, CleanVars, WatchVars, CountVars, NameVars>>
    \/ ReadTier
          /\ UNCHANGED <<EarlierVars, HealthVars, DriftVars, CrewVars, VersionVars, DoctorVars, FindVars, CapVars, CleanVars, WatchVars, CountVars, NameVars>>

SpecTier == InitTier /\ [][NextTier]_vars

\* what the doctor checks leave alone
DoctorRest == <<SrvVars, BrVars, RaceVars, HealthVars, DriftVars, CrewVars, VersionVars, TierVars, FindVars, CapVars, CleanVars, WatchVars, CountVars, NameVars>>

InitDoctor == SrvQuiet /\ dataDbs \in SUBSET Rigs /\ BrInit /\ DoctorMetaInit /\ RaceIdle /\ HealthIdle /\ DriftIdle /\ CrewIdle /\ VersionIdle /\ TierIdle /\ DoctorInit /\ FindIdle /\ CapIdle /\ CleanIdle /\ WatchIdle /\ CountIdle /\ NameIdle

NextDoctor ==
    \/ UnmigratedRun /\ UNCHANGED DoctorRest
    \/ MetaRun /\ UNCHANGED DoctorRest
    \/ MetaFix /\ UNCHANGED DoctorRest

SpecDoctor == InitDoctor /\ [][NextDoctor]_vars


InitFindBranch == EarlierIdle /\ HealthIdle /\ DriftIdle /\ CrewIdle /\ VersionIdle /\ TierIdle /\ DoctorIdle /\ FindIdle /\ CapIdle /\ CleanIdle /\ WatchIdle /\ CountIdle /\ NameIdle

NextFindBranch ==
    \/ (\E name \in BranchPolecats : findDoltBranch(name))
          /\ UNCHANGED <<EarlierVars, HealthVars, DriftVars, CrewVars, VersionVars, TierVars, DoctorVars, CapVars, CleanVars, WatchVars, CountVars, NameVars>>
    \/ (\E name \in BranchPolecats : CreateBranchFor(name))
          /\ UNCHANGED <<EarlierVars, HealthVars, DriftVars, CrewVars, VersionVars, TierVars, DoctorVars, CapVars, CleanVars, WatchVars, CountVars, NameVars>>
    \/ UnixTick
          /\ UNCHANGED <<EarlierVars, HealthVars, DriftVars, CrewVars, VersionVars, TierVars, DoctorVars, CapVars, CleanVars, WatchVars, CountVars, NameVars>>

SpecFindBranch == InitFindBranch /\ [][NextFindBranch]_vars

InitCapacity == EarlierIdle /\ HealthIdle /\ DriftIdle /\ CrewIdle /\ VersionIdle /\ TierIdle /\ DoctorIdle /\ FindIdle /\ CapInit /\ CleanIdle /\ WatchIdle /\ CountIdle /\ NameIdle

NextCapacity ==
    \/ HasConnectionCapacity
          /\ UNCHANGED <<EarlierVars, HealthVars, DriftVars, CrewVars, VersionVars, TierVars, DoctorVars, FindVars, CleanVars, WatchVars, CountVars, NameVars>>
    \/ GetHealthMetrics
          /\ UNCHANGED <<EarlierVars, HealthVars, DriftVars, CrewVars, VersionVars, TierVars, DoctorVars, FindVars, CleanVars, WatchVars, CountVars, NameVars>>
    \/ ProcessListChange
          /\ UNCHANGED <<EarlierVars, HealthVars, DriftVars, CrewVars, VersionVars, TierVars, DoctorVars, FindVars, CleanVars, WatchVars, CountVars, NameVars>>

SpecCapacity == InitCapacity /\ [][NextCapacity]_vars

InitLockCleanup == EarlierIdle /\ HealthIdle /\ DriftIdle /\ CrewIdle /\ VersionIdle /\ TierIdle /\ DoctorIdle /\ FindIdle /\ CapIdle /\ CleanIdle /\ WatchIdle /\ CountIdle /\ NameIdle

NextLockCleanup ==
    \/ CleanupBegin
          /\ UNCHANGED <<EarlierVars, HealthVars, DriftVars, CrewVars, VersionVars, TierVars, DoctorVars, FindVars, CapVars, WatchVars, CountVars, NameVars>>
    \/ CleanupStat
          /\ UNCHANGED <<EarlierVars, HealthVars, DriftVars, CrewVars, VersionVars, TierVars, DoctorVars, FindVars, CapVars, WatchVars, CountVars, NameVars>>
    \/ CleanupProbe
          /\ UNCHANGED <<EarlierVars, HealthVars, DriftVars, CrewVars, VersionVars, TierVars, DoctorVars, FindVars, CapVars, WatchVars, CountVars, NameVars>>
    \/ CleanupRemove
          /\ UNCHANGED <<EarlierVars, HealthVars, DriftVars, CrewVars, VersionVars, TierVars, DoctorVars, FindVars, CapVars, WatchVars, CountVars, NameVars>>
    \/ (\E u \in LockUsers, d \in DOMAIN nomsLock : LockOpen(u, d))
          /\ UNCHANGED <<EarlierVars, HealthVars, DriftVars, CrewVars, VersionVars, TierVars, DoctorVars, FindVars, CapVars, WatchVars, CountVars, NameVars>>
    \/ (\E u \in LockUsers, d \in DOMAIN nomsLock : LockClose(u, d))
          /\ UNCHANGED <<EarlierVars, HealthVars, DriftVars, CrewVars, VersionVars, TierVars, DoctorVars, FindVars, CapVars, WatchVars, CountVars, NameVars>>

SpecLockCleanup == InitLockCleanup /\ [][NextLockCleanup]_vars

InitWatch == EarlierIdle /\ HealthIdle /\ DriftInit /\ CrewIdle /\ VersionIdle /\ TierIdle /\ DoctorIdle /\ FindIdle /\ CapIdle /\ CleanIdle /\ WatchInit /\ CountIdle /\ NameIdle

WatchRest == <<EarlierVars, HealthVars, CrewVars, VersionVars, TierVars, DoctorVars, FindVars, CapVars, CleanVars, CountVars, NameVars>>

NextWatch ==
    \/ WatchCheck /\ UNCHANGED WatchRest
    \/ WatchSecond /\ UNCHANGED WatchRest
    \/ WatchTimer /\ UNCHANGED WatchRest
    \/ WatchDone /\ UNCHANGED WatchRest
    \/ RunOnce /\ UNCHANGED WatchRest
    \/ WatchSignal /\ UNCHANGED WatchRest

SpecWatch == InitWatch /\ [][NextWatch]_vars

\* the pass of the loop in progress ends, and a select whose context is
\* cancelled returns
SpecWatchFair ==
    /\ SpecWatch
    /\ WF_vars(WatchCheck /\ UNCHANGED WatchRest)
    /\ WF_vars(WatchDone /\ UNCHANGED WatchRest)

InitCount == EarlierIdle /\ HealthIdle /\ DriftIdle /\ CrewIdle /\ VersionIdle /\ TierIdle /\ DoctorIdle /\ FindIdle /\ CapIdle /\ CleanIdle /\ WatchIdle /\ CountInit /\ NameIdle

CountRest == <<EarlierVars, HealthVars, DriftVars, CrewVars, VersionVars, TierVars, DoctorVars, FindVars, CapVars, CleanVars, WatchVars, NameVars>>

NextCount ==
    \/ CountSteps /\ UNCHANGED CountRest
    \/ CountForget /\ UNCHANGED CountRest

SpecCount == InitCount /\ [][NextCount]_vars

InitSessionNames == EarlierIdle /\ HealthIdle /\ DriftIdle /\ CrewIdle /\ VersionIdle /\ TierIdle /\ DoctorIdle /\ FindIdle /\ CapIdle /\ CleanIdle /\ WatchIdle /\ CountIdle /\ NameInit

NextSessionNames ==
    \/ SessionNames
          /\ UNCHANGED <<EarlierVars, HealthVars, DriftVars, CrewVars, VersionVars, TierVars, DoctorVars, FindVars, CapVars, CleanVars, WatchVars, CountVars>>

SpecSessionNames == InitSessionNames /\ [][NextSessionNames]_vars
=============================================================================
